---- MODULE Spec2Model ----
(***************************************************************************)
(* Moodboard builder: the host page (BuilderPage) that owns the scene      *)
(* (draggableImages, backgroundImage, selection, export token) and the     *)
(* CanvasEditor component that renders it, commits drags and transforms    *)
(* back to the host and exports the stage when the export token changes.   *)
(*                                                                         *)
(* React state is modelled by the values the hooks hold.  A handler is one *)
(* action.  A passive effect (useEffect) that a handler's state change     *)
(* schedules is a separate step that must run before the next handler:     *)
(* React flushes pending passive effects before it processes the next      *)
(* event, so every handler is guarded by Ready.                            *)
(***************************************************************************)
EXTENDS Integers, Sequences, FiniteSets, TLC

(***************************************************************************)
(* Bounds of the model.                                                    *)
(***************************************************************************)
MaxLayers == 3
MaxGeomLayers == 1
MaxTime == 2
MaxToken == 3
MaxDim == 1200
MaxPoints == 3
MaxMaskLayers == 1
MaxSelectLayers == 2
MaxPersistLayers == 2
MaxCommitLayers == 2
MaxBackgroundLayers == 2
MaxPlaceLayers == 2
MaxControlLayers == 2
MaxRotation == 90
MaxRequests == 3
MaxFlipLayers == 1
MaxRenderLayers == 2

(***************************************************************************)
(* Program constants.                                                      *)
(***************************************************************************)
InitialSize == 120
MinSize == 10
RandomBase == 50
RandomSpanX == 300
RandomSpanY == 200
DefaultCanvasWidth == 960
DefaultCanvasHeight == 540
AspectW == 16
AspectH == 9
BackgroundWidth == 400
BackgroundHeight == 300

(***************************************************************************)
(* Optional values (T | null, T | undefined) are sequences of length <= 1. *)
(***************************************************************************)
None == <<>>
Some(v) == <<v>>
IsSome(o) == o # <<>>
Get(o) == o[1]

Max(a, b) == IF a >= b THEN a ELSE b
Min(a, b) == IF a <= b THEN a ELSE b

Urls == {"u1", "u2"}
Pages == {"builder", "builderLegacy"}

\* id: `${imageUrl}-${Date.now()}`.  The timestamp is all digits, so the last
\* "-" of the string separates url and timestamp and the string determines the
\* pair: two ids are equal iff their url and their timestamp are equal.
MakeId(url, t) == [url |-> url, t |-> t]

\* Math.random() * 300 + 50 lies in [50, 350), * 200 + 50 in [50, 250): the
\* two ends of each range.
RandomXs == {RandomBase, RandomBase + RandomSpanX - 1}
RandomYs == {RandomBase, RandomBase + RandomSpanY - 1}

VARIABLES
    page,                  \* which builder page hosts the editor
    now,                   \* Date.now()
    draggableImages,       \* host: ordered layer list (z-order)
    selectedImageUrls,     \* host: list of urls shown as selected
    selectedImageId,       \* host: selected layer id or null
    backgroundImage,       \* host: background record or null
    effectsPending,        \* the [draggableImages] sync effect has to run
    containerRect,         \* moodboardRef.getBoundingClientRect(): <<w, h>>
    canvasSize,            \* host: canvasSize state <<width, height>>
    draggedImage,          \* host: id being dragged or null
    dragOffset,            \* host: grab offset <<x, y>>
    isDraggingBackground,  \* host: background drag flag
    backgroundDragOffset,  \* host: grab offset of the background
    exportToken,           \* host: export request token
    onExportId,            \* identity of the onExport callback
    editorMounted,         \* CanvasEditor (dynamic import) is mounted
    selectedId,            \* editor: selected layer id or null
    prevExportTokenRef,    \* editor: prevExportTokenRef.current
    exportEffectPending,   \* the [requestExportToken, doExport] effect has to run
    transformersVisible,   \* visible() of each Transformer of the stage
    exportRuns,            \* every run of doExport: token, outcome, visibility before
    firstToken,            \* token the export effect saw on its first run
    crashed,               \* an effect threw: React unmounted the tree
    issuedIds,             \* every id addToMoodboard has created, in order
    lastOp,                \* the last scene operation and the list before it
    prevOp,                \* the scene operation before lastOp
    maskMode,              \* host: maskMode state, the editor's maskMode prop
    polygonPoints,         \* host: polygonPoints state, the editor's prop
    isPainting,            \* editor: a brush stroke is in progress
    brushPainted,          \* the brush layer's canvas holds stamped circles
    brushMaskImage,        \* editor: snapshot of the brush layer or null
    lastPointer,           \* the last pointer event on the stage and its target
    storedImages,          \* localStorage builder_draggableImages or null
    storedBackground,      \* localStorage builder_backgroundImage or null
    hydration,             \* state updates the load effect has scheduled
    sceneAtReload,         \* the scene when the page was last reloaded
    cachedProducts,        \* productsCache: the cached list or null
    inflight,              \* productsCache: the promise of the request in flight
    flights,               \* every request to /api/products and how it settled
    callerState,           \* the product load effect of each page
    renderedItems,         \* editor: the items its handlers closed over, or null when they are the current list
    bgImage,               \* editor: image state of useHTMLImage(background?.url)
    bgLoads,               \* the Image objects of that hook still loading
    bgEffectUrl,           \* the url the hook's effect last ran with
    proxyExchange          \* the last request to /api/proxy-image and its answer

vars == <<page, now, draggableImages, selectedImageUrls, selectedImageId,
          backgroundImage, effectsPending, containerRect, canvasSize,
          draggedImage, dragOffset, isDraggingBackground, backgroundDragOffset,
          exportToken, onExportId, editorMounted, selectedId,
          prevExportTokenRef, exportEffectPending, transformersVisible,
          exportRuns, firstToken, crashed, issuedIds, lastOp, prevOp,
          maskMode, polygonPoints, isPainting, brushPainted, brushMaskImage,
          lastPointer, storedImages, storedBackground, hydration,
          sceneAtReload, cachedProducts, inflight, flights, callerState,
          renderedItems, bgImage, bgLoads, bgEffectUrl, proxyExchange>>

sceneVars == <<draggableImages, selectedImageUrls, selectedImageId,
               effectsPending, issuedIds, lastOp, prevOp>>
hostDragVars == <<draggedImage, dragOffset, isDraggingBackground,
                  backgroundDragOffset>>
maskVars == <<maskMode, polygonPoints, isPainting, brushPainted,
              brushMaskImage>>
persistVars == <<storedImages, storedBackground, hydration, sceneAtReload>>
cacheVars == <<cachedProducts, inflight, flights, callerState>>
renderVars == <<renderedItems>>
loadVars == <<bgImage, bgLoads, bgEffectUrl>>
proxyVars == <<proxyExchange>>
serviceVars == <<cacheVars, renderVars, loadVars, proxyVars>>

\* the pages with a product load effect
Callers == {"home", "builder"}
IdleCaller == [pc |-> "idle", promise |-> 0, result |-> <<>>]

\* module state of productsCache and the state outside the builder's scene
InitServices ==
    /\ cachedProducts = None
    /\ inflight = None
    /\ flights = <<>>
    /\ callerState = [c \in Callers |-> IdleCaller]
    /\ renderedItems = None
    /\ bgImage = None
    /\ bgLoads = {}
    /\ bgEffectUrl = None
    /\ proxyExchange = None
exportVars == <<exportToken, onExportId, prevExportTokenRef,
                exportEffectPending, transformersVisible, exportRuns,
                firstToken, crashed>>

\* no pointer event yet
NoPointer == [target |-> "none", id |-> MakeId("", 0), notified |-> None]

NoOp == [op |-> "none", id |-> MakeId("", 0), idx |-> 0, before |-> <<>>]
Op(name, id, idx, before) == [op |-> name, id |-> id, idx |-> idx, before |-> before]

\* history: remember the operation and the one before it
Logged(name, id, idx, before) ==
    /\ lastOp' = Op(name, id, idx, before)
    /\ prevOp' = lastOp

Ready ==
    ~effectsPending /\ ~exportEffectPending /\ ~crashed /\ hydration = None

(***************************************************************************)
(* Array helpers.                                                          *)
(***************************************************************************)
\* prev.findIndex(img => img.id === id): first index, 0 when absent (-1 in JS)
FindIndex(list, id) ==
    IF \E i \in 1..Len(list) : list[i].id = id
    THEN CHOOSE i \in 1..Len(list) :
            /\ list[i].id = id
            /\ \A j \in 1..(i - 1) : list[j].id # id
    ELSE 0

\* next.splice(idx, 1)
RemoveAt(list, i) == SubSeq(list, 1, i - 1) \o SubSeq(list, i + 1, Len(list))

IdsOf(list) == {list[i].id : i \in 1..Len(list)}
UrlsOf(list) == {list[i].url : i \in 1..Len(list)}
Range(s) == {s[i] : i \in 1..Len(s)}

\* Array.from(new Set(list.map(img => img.url))): first occurrences, in order
RECURSIVE DistinctUrls(_)
DistinctUrls(list) ==
    IF list = <<>> THEN <<>>
    ELSE LET front == DistinctUrls(SubSeq(list, 1, Len(list) - 1))
             u == list[Len(list)].url
         IN IF u \in Range(front) THEN front ELSE Append(front, u)

InitState ==
    /\ now = 0
    /\ draggableImages = <<>>
    /\ selectedImageUrls = <<>>
    /\ selectedImageId = None
    /\ backgroundImage = None
    /\ effectsPending = FALSE
    /\ containerRect = <<DefaultCanvasWidth, DefaultCanvasHeight>>
    /\ canvasSize = <<DefaultCanvasWidth, DefaultCanvasHeight>>
    /\ draggedImage = None
    /\ dragOffset = <<0, 0>>
    /\ isDraggingBackground = FALSE
    /\ backgroundDragOffset = <<0, 0>>
    /\ exportToken = 0
    /\ onExportId = 0
    /\ editorMounted = FALSE
    /\ selectedId = None
    /\ prevExportTokenRef = None
    /\ exportEffectPending = FALSE
    /\ transformersVisible = <<TRUE>>
    /\ exportRuns = <<>>
    /\ firstToken = None
    /\ crashed = FALSE
    /\ issuedIds = <<>>
    /\ lastOp = NoOp
    /\ prevOp = NoOp
    /\ maskMode = "none"
    /\ polygonPoints = <<>>
    /\ isPainting = FALSE
    /\ brushPainted = FALSE
    /\ brushMaskImage = None
    /\ lastPointer = NoPointer
    /\ storedImages = None
    /\ storedBackground = None
    /\ hydration = None
    /\ sceneAtReload = None
    /\ InitServices

\* the current builder page
Init == page = "builder" /\ InitState

\* either builder page
InitPages == page \in Pages /\ InitState

(***************************************************************************)
(* Host page: scene operations.                                            *)
(***************************************************************************)
NewLayer(url, t, rx, ry) ==
    [id |-> MakeId(url, t), url |-> url, x |-> rx, y |-> ry,
     width |-> InitialSize, height |-> InitialSize,
     rotation |-> None, flipHorizontal |-> None]

\* setSelectedImageUrls(prev => prev.includes(u) ? prev : [...prev, u])
WithUrl(urls, u) == IF u \in Range(urls) THEN urls ELSE Append(urls, u)
\* prev.filter(u => u !== url)
WithoutUrl(urls, u) == SelectSeq(urls, LAMBDA v : v # u)
\* prev.filter(img => img.id !== imageId)
WithoutId(list, id) == SelectSeq(list, LAMBDA img : img.id # id)
\* prev.filter(img => img.url !== imageUrl)
WithoutUrlLayers(list, u) == SelectSeq(list, LAMBDA img : img.url # u)

\* the clock behind Date.now() advances between events, or does not
Tick ==
    /\ ~crashed
    /\ now < MaxTime
    /\ now' = now + 1
    /\ UNCHANGED <<page, serviceVars, maskVars, persistVars, lastPointer, sceneVars, backgroundImage, containerRect, canvasSize,
                   hostDragVars, exportVars, editorMounted, selectedId>>

AddToMoodboard(url, rx, ry, cap) ==
    /\ Ready
    /\ Len(draggableImages) < cap
    /\ Len(issuedIds) < cap
    /\ selectedImageUrls' = WithUrl(selectedImageUrls, url)
    /\ draggableImages' = Append(draggableImages, NewLayer(url, now, rx, ry))
    /\ issuedIds' = Append(issuedIds, MakeId(url, now))
    /\ effectsPending' = TRUE
    /\ Logged("add", MakeId(url, now), Len(draggableImages) + 1, draggableImages)
    /\ UNCHANGED <<page, serviceVars, maskVars, persistVars, lastPointer, now, selectedImageId, backgroundImage, containerRect,
                   canvasSize, hostDragVars, exportVars, editorMounted,
                   selectedId>>

RemoveFromMoodboard(url) ==
    /\ Ready
    /\ url \in UrlsOf(draggableImages)
    /\ selectedImageUrls' = WithoutUrl(selectedImageUrls, url)
    /\ draggableImages' = WithoutUrlLayers(draggableImages, url)
    /\ effectsPending' = TRUE
    /\ Logged("removeUrl", MakeId(url, 0), 0, draggableImages)
    /\ UNCHANGED <<page, serviceVars, maskVars, persistVars, lastPointer, now, selectedImageId, issuedIds, backgroundImage,
                   containerRect, canvasSize, hostDragVars, exportVars,
                   editorMounted, selectedId>>

\* current builder: removes the instance with that id
RemoveImageById(imageId) ==
    LET remainingImages == WithoutId(draggableImages, imageId)
        idx == FindIndex(draggableImages, imageId)
        found == idx # 0
        urlToCheck == draggableImages[idx].url
    IN /\ draggableImages' = WithoutId(draggableImages, imageId)
       /\ selectedImageUrls' =
             IF found /\ urlToCheck \notin UrlsOf(remainingImages)
             THEN WithoutUrl(selectedImageUrls, urlToCheck)
             ELSE selectedImageUrls
       /\ selectedImageId' = None
       /\ effectsPending' = TRUE

\* older builder: delegates to removeFromMoodboard(image.url)
RemoveImageByUrl(imageId) ==
    LET idx == FindIndex(draggableImages, imageId)
    IN IF idx # 0
       THEN /\ selectedImageUrls' =
                  WithoutUrl(selectedImageUrls, draggableImages[idx].url)
            /\ draggableImages' =
                  WithoutUrlLayers(draggableImages, draggableImages[idx].url)
            /\ selectedImageId' = None
            /\ effectsPending' = TRUE
       ELSE UNCHANGED <<selectedImageUrls, draggableImages, selectedImageId,
                        effectsPending>>

\* the Remove button of the image controls: removeImage(selectedImageId)
RemoveImage ==
    /\ Ready
    /\ IsSome(selectedImageId)
    /\ IF page = "builder"
       THEN RemoveImageById(Get(selectedImageId))
       ELSE RemoveImageByUrl(Get(selectedImageId))
    /\ Logged("removeImage", Get(selectedImageId),
              FindIndex(draggableImages, Get(selectedImageId)), draggableImages)
    /\ UNCHANGED <<page, serviceVars, maskVars, persistVars, lastPointer, now, issuedIds, backgroundImage, containerRect,
                   canvasSize, hostDragVars, exportVars, editorMounted,
                   selectedId>>

\* confirm() answered yes
ClearMoodboard ==
    /\ Ready
    /\ draggableImages # <<>> \/ IsSome(backgroundImage)
    /\ draggableImages' = <<>>
    /\ backgroundImage' = None
    /\ selectedImageId' = None
    /\ effectsPending' = TRUE
    /\ storedImages' = None
    /\ storedBackground' = None
    /\ Logged("clear", MakeId("", 0), 0, draggableImages)
    /\ UNCHANGED <<page, serviceVars, maskVars, hydration, sceneAtReload, lastPointer, now, selectedImageUrls, issuedIds, containerRect,
                   canvasSize, hostDragVars, exportVars, editorMounted,
                   selectedId>>

(***************************************************************************)
(* Persistence: what JSON.stringify writes and JSON.parse reads back.  A   *)
(* stored string is unparsable text or the text of a JSON value; an        *)
(* object is a function of the keys that are present.                      *)
(***************************************************************************)

Unparsable == [kind |-> "text", type |-> "none", items |-> <<>>]
JsonArray(items) == [kind |-> "json", type |-> "array", items |-> items]
JsonObject(obj) == [kind |-> "json", type |-> "object", items |-> <<obj>>]

LayerKeys == {"id", "url", "x", "y", "width", "height"}

\* faulty variant: a stringify that writes an undefined rotation as 0
StringifyLayerZero(img) ==
    [k \in LayerKeys \cup {"rotation"}
             \cup (IF IsSome(img.flipHorizontal) THEN {"flipHorizontal"}
                   ELSE {}) |->
       CASE k = "rotation" ->
              IF IsSome(img.rotation) THEN Get(img.rotation) ELSE 0
         [] k = "flipHorizontal" -> Get(img.flipHorizontal)
         [] OTHER -> img[k]]

\* JSON.stringify of one layer: a field that is undefined is left out
StringifyLayer(img) ==
    [k \in LayerKeys
             \cup (IF IsSome(img.rotation) THEN {"rotation"} ELSE {})
             \cup (IF IsSome(img.flipHorizontal) THEN {"flipHorizontal"}
                   ELSE {}) |->
       CASE k = "rotation" -> Get(img.rotation)
         [] k = "flipHorizontal" -> Get(img.flipHorizontal)
         [] OTHER -> img[k]]

\* the layer JSON.parse gives back: a key that is absent reads undefined
ParseLayer(obj) ==
    [id |-> obj["id"], url |-> obj["url"], x |-> obj["x"], y |-> obj["y"],
     width |-> obj["width"], height |-> obj["height"],
     rotation |-> IF "rotation" \in DOMAIN obj
                  THEN Some(obj["rotation"]) ELSE None,
     flipHorizontal |-> IF "flipHorizontal" \in DOMAIN obj
                        THEN Some(obj["flipHorizontal"]) ELSE None]

BackgroundKeys == {"url", "x", "y", "width", "height", "zIndex"}
StringifyBackground(bg) == [k \in BackgroundKeys |-> bg[k]]
ParseBackground(obj) ==
    [url |-> obj["url"], x |-> obj["x"], y |-> obj["y"],
     width |-> obj["width"], height |-> obj["height"],
     zIndex |-> obj["zIndex"]]

\* save effect on [draggableImages]: setItem for a non-empty list, else
\* removeItem
SaveImages(list) ==
    IF Len(list) > 0
    THEN Some(JsonArray([i \in DOMAIN list |-> StringifyLayer(list[i])]))
    ELSE None

\* save effect on [backgroundImage]
SaveBackground(bg) ==
    IF IsSome(bg) THEN Some(JsonObject(StringifyBackground(Get(bg))))
    ELSE None

\* load effect: one try block around both JSON.parse calls; the state
\* updates it has made before a throw stay
LoadState(si, sb) ==
    LET imagesThrow == IsSome(si) /\ Get(si).kind = "text"
        backgroundThrows == IsSome(sb) /\ Get(sb).kind = "text"
    IN [phase |-> "apply",
        images |-> IF IsSome(si) /\ ~imagesThrow THEN si ELSE None,
        background |-> IF ~imagesThrow /\ IsSome(sb) /\ ~backgroundThrows
                       THEN sb ELSE None]

\* the page has (re)loaded and the effects of its first render have to run
MountPhase == [phase |-> "mount", images |-> None, background |-> None]

\* useEffect(() => setSelectedImageUrls(distinct urls), [draggableImages])
\* faulty variant: the effect that keeps the urls it had
SyncedUrlsStale(list, urls) == urls

SyncedUrls(list, urls) == DistinctUrls(list)

SyncSelectedUrlsEffect ==
    /\ effectsPending
    /\ ~crashed
    /\ storedImages' = SaveImages(draggableImages)
    /\ storedBackground' = SaveBackground(backgroundImage)
    /\ selectedImageUrls' = SyncedUrls(draggableImages, selectedImageUrls)
    /\ effectsPending' = FALSE
    /\ UNCHANGED <<page, serviceVars, maskVars, hydration, sceneAtReload, lastPointer, now, draggableImages, selectedImageId, issuedIds,
                   lastOp, prevOp, backgroundImage, containerRect, canvasSize,
                   hostDragVars, exportVars, editorMounted, selectedId>>

(***************************************************************************)
(* Layer order: bringToFront / sendToBack of the selected layer.           *)
(***************************************************************************)
\* faulty variant: the layer trades places with the last one
BringToFrontListSwap(prev, imageId) ==
    LET idx == FindIndex(prev, imageId)
    IN IF idx = 0 THEN prev
       ELSE [prev EXCEPT ![idx] = prev[Len(prev)], ![Len(prev)] = prev[idx]]

BringToFrontList(prev, imageId) ==
    LET idx == FindIndex(prev, imageId)
    IN IF idx = 0 THEN prev ELSE Append(RemoveAt(prev, idx), prev[idx])

\* faulty variant: the layer trades places with the first one
SendToBackListSwap(prev, imageId) ==
    LET idx == FindIndex(prev, imageId)
    IN IF idx = 0 THEN prev
       ELSE [prev EXCEPT ![idx] = prev[1], ![1] = prev[idx]]

SendToBackList(prev, imageId) ==
    LET idx == FindIndex(prev, imageId)
    IN IF idx = 0 THEN prev ELSE <<prev[idx]>> \o RemoveAt(prev, idx)

Reorder(name, next) ==
    /\ Ready
    /\ page = "builder"
    /\ IsSome(selectedImageId)
    /\ draggableImages' = next
    /\ effectsPending' = (FindIndex(draggableImages, Get(selectedImageId)) # 0)
    /\ Logged(name, Get(selectedImageId),
              FindIndex(draggableImages, Get(selectedImageId)), draggableImages)
    /\ UNCHANGED <<page, serviceVars, maskVars, persistVars, lastPointer, now, selectedImageUrls, selectedImageId, issuedIds,
                   backgroundImage, containerRect, canvasSize, hostDragVars,
                   exportVars, editorMounted, selectedId>>

BringToFront ==
    Reorder("bringToFront",
            BringToFrontList(draggableImages, Get(selectedImageId)))

SendToBack ==
    Reorder("sendToBack",
            SendToBackList(draggableImages, Get(selectedImageId)))

(***************************************************************************)
(* Image controls of the builder page: rotate and flip.                    *)
(***************************************************************************)

\* rotation: (img.rotation || 0) + delta on the layers with that id
RotateList(prev, imageId, delta) ==
    [j \in 1..Len(prev) |->
        IF prev[j].id = imageId
        THEN [prev[j] EXCEPT
                !.rotation = Some((IF IsSome(prev[j].rotation)
                                   THEN Get(prev[j].rotation) ELSE 0) + delta)]
        ELSE prev[j]]

\* faulty variant: a flip that does not look at the id
FlipListAll(prev, imageId) ==
    [j \in 1..Len(prev) |->
        [prev[j] EXCEPT
           !.flipHorizontal = Some(~(IsSome(prev[j].flipHorizontal)
                                     /\ Get(prev[j].flipHorizontal)))]]

\* flipHorizontal: !img.flipHorizontal on the layers with that id
FlipList(prev, imageId) ==
    [j \in 1..Len(prev) |->
        IF prev[j].id = imageId
        THEN [prev[j] EXCEPT
                !.flipHorizontal = Some(~(IsSome(prev[j].flipHorizontal)
                                          /\ Get(prev[j].flipHorizontal)))]
        ELSE prev[j]]

\* the steps of the two rotate buttons
RotationSteps == {-90, 90}

\* rotateImageLeft / rotateImageRight of the image controls
RotateImage(delta) ==
    /\ Ready
    /\ page = "builder"
    /\ IsSome(selectedImageId)
    /\ \A j \in 1..Len(draggableImages) :
          LET r == RotateList(draggableImages, Get(selectedImageId), delta)[j]
          IN IsSome(r.rotation) =>
                Get(r.rotation) \in -MaxRotation..MaxRotation
    /\ draggableImages' = RotateList(draggableImages, Get(selectedImageId),
                                     delta)
    /\ effectsPending' = TRUE
    /\ Logged("rotate", Get(selectedImageId),
              FindIndex(draggableImages, Get(selectedImageId)), draggableImages)
    /\ UNCHANGED <<page, serviceVars, maskVars, persistVars, lastPointer, now,
                   selectedImageUrls, selectedImageId, issuedIds,
                   backgroundImage, containerRect, canvasSize, hostDragVars,
                   exportVars, editorMounted, selectedId>>

\* flipImageHorizontal of the image controls
FlipImageHorizontal ==
    /\ Ready
    /\ page = "builder"
    /\ IsSome(selectedImageId)
    /\ draggableImages' = FlipList(draggableImages, Get(selectedImageId))
    /\ effectsPending' = TRUE
    /\ Logged("flip", Get(selectedImageId),
              FindIndex(draggableImages, Get(selectedImageId)), draggableImages)
    /\ UNCHANGED <<page, serviceVars, maskVars, persistVars, lastPointer, now,
                   selectedImageUrls, selectedImageId, issuedIds,
                   backgroundImage, containerRect, canvasSize, hostDragVars,
                   exportVars, editorMounted, selectedId>>

(***************************************************************************)
(* Editor: mount and selection.                                            *)
(***************************************************************************)
\* the dynamically imported CanvasEditor mounts; its effects run after it
MountEditor ==
    /\ Ready
    /\ ~editorMounted
    /\ editorMounted' = TRUE
    /\ exportEffectPending' = TRUE
    /\ brushMaskImage' = Some(brushPainted)
    /\ UNCHANGED <<page, serviceVars, maskMode, polygonPoints, isPainting, brushPainted,
                   persistVars, lastPointer, now, sceneVars, backgroundImage, containerRect,
                   canvasSize, hostDragVars, exportToken, onExportId,
                   prevExportTokenRef, transformersVisible, exportRuns,
                   firstToken, crashed, selectedId>>

\* click or tap on the image of layer i
ImageClick(i) ==
    /\ Ready
    /\ editorMounted
    /\ i \in 1..Len(draggableImages)
    /\ maskMode # "polygon"
    /\ selectedId' = Some(draggableImages[i].id)
    /\ selectedImageId' = Some(draggableImages[i].id)
    /\ lastPointer' = [target |-> "layer", id |-> draggableImages[i].id,
                       notified |-> Some(draggableImages[i].id)]
    /\ UNCHANGED <<page, serviceVars, maskVars, persistVars, now, draggableImages, selectedImageUrls,
                   effectsPending, issuedIds, lastOp, prevOp, backgroundImage,
                   containerRect, canvasSize, hostDragVars, exportVars,
                   editorMounted>>


(***************************************************************************)
(* Canvas size and export.                                                 *)
(***************************************************************************)
\* updateCanvasSize: 16:9 canvas covering the container, floored
CoverSize(rect) ==
    LET w == rect[1]
        h == rect[2]
    IN IF w * AspectH < h * AspectW
       THEN <<(h * AspectW) \div AspectH, h>>
       ELSE <<w, (w * AspectH) \div AspectW>>

\* window resize / ResizeObserver: the container has a new size
ResizeContainer(rect) ==
    /\ Ready
    /\ page = "builder"
    /\ rect # containerRect
    /\ containerRect' = rect
    /\ canvasSize' = CoverSize(rect)
    /\ exportEffectPending' = (editorMounted /\ CoverSize(rect) # canvasSize)
    /\ brushMaskImage' =
          IF editorMounted /\ ~isPainting /\ CoverSize(rect) # canvasSize
          THEN Some(brushPainted) ELSE brushMaskImage
    /\ UNCHANGED <<page, serviceVars, maskMode, polygonPoints, isPainting, brushPainted,
                   persistVars, lastPointer, now, sceneVars, backgroundImage, hostDragVars,
                   exportToken, onExportId, prevExportTokenRef,
                   transformersVisible, exportRuns, firstToken, crashed,
                   editorMounted, selectedId>>

\* the host passes a new onExport callback (useCallback deps changed)
ChangeOnExport ==
    /\ Ready
    /\ onExportId' = 1 - onExportId
    /\ exportEffectPending' = editorMounted
    /\ UNCHANGED <<page, serviceVars, maskVars, persistVars, lastPointer, now, sceneVars, backgroundImage, containerRect,
                   canvasSize, hostDragVars, exportToken, prevExportTokenRef,
                   transformersVisible, exportRuns, firstToken, crashed,
                   editorMounted, selectedId>>

\* Download button: disabled on an empty scene
DownloadMoodboard ==
    /\ Ready
    /\ ~(Len(draggableImages) = 0 /\ ~IsSome(backgroundImage))
    /\ exportToken < MaxToken
    /\ exportToken' = exportToken + 1
    /\ exportEffectPending' = editorMounted
    /\ UNCHANGED <<page, serviceVars, maskVars, persistVars, lastPointer, now, sceneVars, backgroundImage, containerRect,
                   canvasSize, hostDragVars, onExportId, prevExportTokenRef,
                   transformersVisible, exportRuns, firstToken, crashed,
                   editorMounted, selectedId>>

(***************************************************************************)
(* Render tree of the editor: the layers of the Stage in drawing order,    *)
(* each with its clip and the nodes that paint pixels.                     *)
(***************************************************************************)

MaskModes == {"none", "brush", "polygon"}

\* polygonPoints.flatMap((p) => [p.x, p.y])
RECURSIVE PolygonKonvaPoints(_)
PolygonKonvaPoints(points) ==
    IF points = <<>> THEN <<>>
    ELSE <<points[1][1], points[1][2]>> \o PolygonKonvaPoints(Tail(points))

\* faulty variant: a clip function from two points on
ItemsClipFuncTwoPoints(mode, konvaPoints, maskImage) ==
    IF mode = "polygon" /\ Len(konvaPoints) >= 4 THEN Some(konvaPoints)
    ELSE None

\* itemsClipFunc(): a clip function for a polygon of three points or more,
\* undefined for the brush and otherwise
ItemsClipFunc(mode, konvaPoints, maskImage) ==
    IF mode = "polygon" /\ Len(konvaPoints) >= 6 THEN Some(konvaPoints)
    ELSE None

\* Attach effect of the shared Transformer: stage.findOne('#node-' + id)
AttachedNodes(sel, list) ==
    IF sel = None \/ FindIndex(list, Get(sel)) = 0 THEN <<>>
    ELSE <<FindIndex(list, Get(sel))>>

Node(kind, id) == [kind |-> kind, id |-> id]
Plain(kind) == Node(kind, MakeId("", 0))

\* {items.map((item) => <DraggableTransformableImage key={item.id} .../>)}
ImageNodes(list) == [i \in DOMAIN list |-> Node("image", list[i].id)]

\* The children of <Stage>: Background layer, Items layer with the shared
\* Transformer, brush layer, and the polygon authoring overlay in polygon
\* mode.  No <Layer> is given a clipFunc: itemsClipFunc is not referenced.
StageLayers(mode, konvaPoints, bg, list, sel, tvis, painted) ==
    <<[name |-> "background", clip |-> None,
       nodes |-> IF IsSome(bg) THEN <<Plain("background")>> ELSE <<>>],
      [name |-> "items", clip |-> None,
       nodes |-> ImageNodes(list) \o
                 (IF tvis[1] /\ AttachedNodes(sel, list) # <<>>
                  THEN <<Plain("transformer")>> ELSE <<>>)],
      [name |-> "brush", clip |-> None,
       nodes |-> IF painted THEN <<Plain("brushStrokes")>> ELSE <<>>]>>
    \o (IF mode = "polygon"
        THEN <<[name |-> "polygon", clip |-> None,
                nodes |-> IF Len(konvaPoints) >= 2
                          THEN <<Plain("polygonLine")>> ELSE <<>>]>>
        ELSE <<>>)

\* what the stage paints, back to front
RECURSIVE DrawOrder(_)
DrawOrder(layers) ==
    IF layers = <<>> THEN <<>>
    ELSE layers[1].nodes \o DrawOrder(Tail(layers))

\* the clips under which the background and the items are composited
CompositeClips(layers) == {layers[1].clip, layers[2].clip}

OverlayKinds == {"transformer", "brushStrokes", "polygonLine"}
Overlays(layers) ==
    {DrawOrder(layers)[i].kind : i \in DOMAIN DrawOrder(layers)}
        \cap OverlayKinds

\* the render tree of the current state
CurrentLayers ==
    StageLayers(maskMode, PolygonKonvaPoints(polygonPoints), backgroundImage,
                draggableImages, selectedId, transformersVisible,
                brushPainted)

\* transformers.forEach(t => t.visible(false))
HideAll(vis) == [i \in DOMAIN vis |-> FALSE]
\* transformers.forEach((t, i) => t.visible(prevVisibility[i]))
RestoreAll(vis, prevVisibility) == [i \in DOMAIN vis |-> prevVisibility[i]]

\* stage.toDataURL either returns or throws
ExportOutcomes == {"ok", "throw"}

\* stage.draw() redraws the brush layer: the circles paint() put on its
\* canvas are no nodes of the layer, the redraw keeps or clears them
RedrawKeeps == BOOLEAN

\* doExport: hide, draw, read back twice, restore, onExport
DoExport(token, outcome) ==
    LET prevVisibility == transformersVisible
        hidden == HideAll(transformersVisible)
    IN /\ brushPainted' \in {brushPainted /\ k : k \in RedrawKeeps}
       /\ exportRuns' = Append(exportRuns,
              [token |-> token, outcome |-> outcome, before |-> prevVisibility,
               overlays |-> Overlays(StageLayers(maskMode,
                   PolygonKonvaPoints(polygonPoints), backgroundImage,
                   draggableImages, selectedId, hidden, brushPainted')),
               clips |-> CompositeClips(StageLayers(maskMode,
                   PolygonKonvaPoints(polygonPoints), backgroundImage,
                   draggableImages, selectedId, hidden, brushPainted'))])
       /\ IF outcome = "ok"
          THEN /\ transformersVisible' = RestoreAll(hidden, prevVisibility)
               /\ crashed' = FALSE
          ELSE /\ transformersVisible' = hidden
               /\ crashed' = TRUE

\* faulty variant: the effect that also exports on its first run
ShouldExportNoFirstSkip(prev, token) == prev = None \/ token # Get(prev)

\* token !== null && token !== prevExportTokenRef.current, after the
\* first-run branch (prevExportTokenRef.current === null) has returned
ShouldExport(prev, token) == IsSome(prev) /\ token # Get(prev)

\* useEffect(..., [requestExportToken, doExport])
RunExportEffect(outcome) ==
    /\ exportEffectPending
    /\ ~crashed
    /\ editorMounted
    /\ exportEffectPending' = FALSE
    /\ IF ShouldExport(prevExportTokenRef, exportToken)
       THEN /\ prevExportTokenRef' = Some(exportToken)
            /\ DoExport(exportToken, outcome)
       ELSE /\ outcome = "ok"
            /\ prevExportTokenRef' =
                  IF prevExportTokenRef = None THEN Some(exportToken)
                  ELSE prevExportTokenRef
            /\ UNCHANGED <<transformersVisible, exportRuns, crashed,
                           brushPainted>>
    /\ firstToken' = IF firstToken = None THEN Some(exportToken) ELSE firstToken
    /\ UNCHANGED <<page, serviceVars, maskMode, polygonPoints, isPainting, brushMaskImage,
                   persistVars, lastPointer, now, sceneVars, backgroundImage, containerRect,
                   canvasSize, hostDragVars, exportToken, onExportId,
                   editorMounted, selectedId>>


(***************************************************************************)
(* Geometry: drags and transforms in the editor, mouse handlers of the     *)
(* host.  Coordinates and sizes are integers; a scale factor is a ratio    *)
(* n/d and a transform is modelled where the scaled size is an integer.    *)
(***************************************************************************)
\* items={draggableImages.map(d => ({..., rotation: d.rotation || 0,
\*                                   flipHorizontal: d.flipHorizontal || false}))}
ToItems(list) ==
    [i \in 1..Len(list) |->
        [id |-> list[i].id, url |-> list[i].url,
         x |-> list[i].x, y |-> list[i].y,
         width |-> list[i].width, height |-> list[i].height,
         rotation |-> IF IsSome(list[i].rotation)
                      THEN Get(list[i].rotation) ELSE 0,
         flipHorizontal |-> IF IsSome(list[i].flipHorizontal)
                            THEN Get(list[i].flipHorizontal) ELSE FALSE]]

\* onItemsChange={(next) => setDraggableImages(next.map(n => ({...})))}
FromItems(items) ==
    [i \in 1..Len(items) |->
        [id |-> items[i].id, url |-> items[i].url,
         x |-> items[i].x, y |-> items[i].y,
         width |-> items[i].width, height |-> items[i].height,
         rotation |-> Some(items[i].rotation),
         flipHorizontal |-> Some(items[i].flipHorizontal)]]

\* faulty variant: the position passes through as proposed
DragBoundNone(v, size, stageSize) == v

\* Math.min(Math.max(0, pos.x), Math.max(0, stageWidth - item.width))
DragBound(v, size, stageSize) == Min(Max(0, v), Max(0, stageSize - size))

\* dragBoundFunc(pos) of the image node of item
DragBoundFunc(pos, item, stage) ==
    <<DragBound(pos[1], item.width, stage[1]),
      DragBound(pos[2], item.height, stage[2])>>

\* positions Konva proposes during a drag
DragPositions == {<<-100, -100>>, <<2000, 2000>>}

\* onDragMove of the node of layer i: Konva has put the node at
\* dragBoundFunc(pos); handleDragMove(item.id, node.position())
\* items.map((it) => (it.id === id ? { ...it, x: pos.x, y: pos.y } : it))
DragMoveItems(items, id, p) ==
    [j \in 1..Len(items) |->
        IF items[j].id = id
        THEN [items[j] EXCEPT !.x = p[1], !.y = p[2]]
        ELSE items[j]]

DragMove(i, pos) ==
    /\ Ready
    /\ editorMounted
    /\ i \in 1..Len(draggableImages)
    /\ LET items == ToItems(draggableImages)
           p == DragBoundFunc(pos, items[i], canvasSize)
           next == DragMoveItems(items, items[i].id, p)
       IN /\ draggableImages' = FromItems(next)
          /\ Logged("drag", items[i].id, i, <<>>)
    /\ effectsPending' = TRUE
    /\ UNCHANGED <<page, serviceVars, maskVars, persistVars, lastPointer, now, selectedImageUrls, selectedImageId, issuedIds,
                   backgroundImage, containerRect, canvasSize, hostDragVars,
                   exportVars, editorMounted, selectedId>>

\* items of the render whose handleDragMove / handleTransformEnd the Konva
\* nodes hold: the host's current list unless a render is outstanding
ItemsProp ==
    IF renderedItems = None THEN ToItems(draggableImages)
    ELSE Get(renderedItems)

\* the editor's handlers are those of the host's current list
Rendered == renderedItems = None

\* onDragMove during a pointer move: handleDragMove computes next from the
\* items of its render and onItemsChange replaces the host's list with it;
\* the host's render with the new list is a later step
CommitDragMove(i, pos) ==
    /\ Ready
    /\ editorMounted
    /\ i \in 1..Len(ItemsProp)
    /\ LET items == ItemsProp
           p == DragBoundFunc(pos, items[i], canvasSize)
           next == DragMoveItems(items, items[i].id, p)
       IN /\ draggableImages' = FromItems(next)
          /\ Logged("drag", items[i].id, i, draggableImages)
    /\ renderedItems' = Some(ItemsProp)
    /\ UNCHANGED <<page, cacheVars, loadVars, proxyVars, maskVars,
                   persistVars, lastPointer, now, selectedImageUrls,
                   selectedImageId, effectsPending, issuedIds,
                   backgroundImage, containerRect, canvasSize, hostDragVars,
                   exportVars, editorMounted, selectedId>>

\* the host renders with its current list: the editor's handlers close over
\* the new items, and the effects on [draggableImages] are due
Render ==
    /\ ~crashed
    /\ ~Rendered
    /\ renderedItems' = None
    /\ effectsPending' = TRUE
    /\ UNCHANGED <<page, cacheVars, loadVars, proxyVars, maskVars,
                   persistVars, lastPointer, now, draggableImages,
                   selectedImageUrls, selectedImageId, issuedIds, lastOp,
                   prevOp, backgroundImage, containerRect, canvasSize,
                   hostDragVars, exportVars, editorMounted, selectedId>>

\* scale factors node.scaleX(), node.scaleY() can hold at the end of a
\* gesture: enlarging, shrinking, mirrored (negative) and collapsed (zero)
\* (unchanged in the other direction where only one is given)
Ratio(n, d) == [n |-> n, d |-> d]
Gestures == {<<Ratio(10, 1), Ratio(10, 1)>>, <<Ratio(1, 24), Ratio(1, 24)>>,
             <<Ratio(-1, 1), Ratio(1, 1)>>, <<Ratio(1, 1), Ratio(0, 1)>>}
Exact(size, scale) == (size * scale.n) % scale.d = 0
Scaled(size, scale) == (size * scale.n) \div scale.d

\* faulty variant: the scaled size without the floor of 10
ResizedUnbounded(size, scale) == Scaled(size, scale)

\* Math.max(10, it.width * scaleX)
Resized(size, scale) == Max(MinSize, Scaled(size, scale))

\* node.x(), node.y() and node.rotation() at the end of a gesture
TransformPositions == {<<-30, -30>>}
Rotations == {45}

\* onTransformEnd of the node the shared Transformer is attached to
\* items.map((it) => it.id === id ? { ...it, x, y, width, height, rotation }
\* : it)
TransformEndItems(items, id, sx, sy, pos, rot) ==
    [j \in 1..Len(items) |->
        IF items[j].id = id
        THEN [items[j] EXCEPT
                 !.x = pos[1], !.y = pos[2],
                 !.width = Resized(items[j].width, sx),
                 !.height = Resized(items[j].height, sy),
                 !.rotation = rot]
        ELSE items[j]]

TransformEnd(sx, sy, pos, rot) ==
    /\ Ready
    /\ editorMounted
    /\ IsSome(selectedId)
    /\ LET items == ToItems(draggableImages)
           i == FindIndex(items, Get(selectedId))
       IN /\ i # 0
          /\ \A j \in 1..Len(items) : items[j].id = items[i].id =>
                /\ Exact(items[j].width, sx)
                /\ Exact(items[j].height, sy)
                /\ Scaled(items[j].width, sx) <= MaxDim
                /\ Scaled(items[j].height, sy) <= MaxDim
          /\ draggableImages' =
                FromItems(TransformEndItems(items, items[i].id, sx, sy,
                                            pos, rot))
          /\ Logged("transform", items[i].id, i, <<>>)
    /\ effectsPending' = TRUE
    /\ UNCHANGED <<page, serviceVars, maskVars, persistVars, lastPointer, now, selectedImageUrls, selectedImageId, issuedIds,
                   backgroundImage, containerRect, canvasSize, hostDragVars,
                   exportVars, editorMounted, selectedId>>

\* scaleX={item.flipHorizontal ? -1 : 1}: the scale the node of a layer is
\* displayed with (scaleY is never set: 1)
DisplayedScaleX(item) == IF item.flipHorizontal THEN Ratio(-1, 1) ELSE Ratio(1, 1)

\* factors by which a gesture changes the displayed size: none, doubled
GestureFactors == {Ratio(1, 1), Ratio(2, 1)}

\* The node's scale at the end of a gesture with factors gx, gy.  The node
\* of an unflipped layer holds the factors.  The mirror of a flipped layer
\* stays on scaleX when the gesture writes no new attributes, and is put
\* on scaleY (with a half turn) when the Transformer decomposes the node's
\* matrix: either can be what node.scaleX(), node.scaleY() return.
MirrorAxes == {"x", "y"}
NodeScales(item, gx, gy, axis) ==
    IF DisplayedScaleX(item).n > 0 THEN <<gx, gy>>
    ELSE IF axis = "x" THEN <<Ratio(-gx.n, gx.d), gy>>
    ELSE <<gx, Ratio(-gy.n, gy.d)>>

\* a Transformer gesture on the selected layer, ending in onTransformEnd
TransformGesture(gx, gy, axis, pos, rot) ==
    /\ IsSome(selectedId)
    /\ FindIndex(draggableImages, Get(selectedId)) # 0
    /\ LET item == ToItems(draggableImages)[
                      FindIndex(draggableImages, Get(selectedId))]
           scales == NodeScales(item, gx, gy, axis)
       IN TransformEnd(scales[1], scales[2], pos, rot)

\* pointer positions of a mouse event, relative to the container:
\* <<e.clientX - rect.left, e.clientY - rect.top>>
MouseDownPositions == {<<0, 0>>}
MouseMovePositions == {<<-2000, -2000>>, <<2000, 2000>>}

\* FileReader.onload of handleBackgroundUpload (the container is mounted);
\* url is the data URL of the file read
HandleBackgroundUploadOf(url) ==
    /\ Ready
    /\ page \in Pages
    /\ backgroundImage' =
          Some([url |-> url,
                x |-> (containerRect[1] \div 2) - 200,
                y |-> (containerRect[2] \div 2) - 150,
                width |-> BackgroundWidth, height |-> BackgroundHeight,
                zIndex |-> -1])
    /\ effectsPending' = TRUE
    /\ Logged("background", MakeId("", 0), 0, draggableImages)
    /\ UNCHANGED <<page, serviceVars, maskVars, persistVars, lastPointer, now,
                   draggableImages, selectedImageUrls, selectedImageId,
                   issuedIds, containerRect, canvasSize,
                   hostDragVars, exportVars, editorMounted, selectedId>>

\* an upload of the one file of the scene checks
HandleBackgroundUpload == HandleBackgroundUploadOf("bg")

\* removeBackgroundImage
RemoveBackgroundImage ==
    /\ Ready
    /\ page = "builder"
    /\ IsSome(backgroundImage)
    /\ backgroundImage' = None
    /\ effectsPending' = TRUE
    /\ Logged("removeBackground", MakeId("", 0), 0, draggableImages)
    /\ UNCHANGED <<page, serviceVars, maskVars, persistVars, lastPointer, now,
                   draggableImages, selectedImageUrls, selectedImageId,
                   issuedIds, containerRect, canvasSize,
                   hostDragVars, exportVars, editorMounted, selectedId>>

(***************************************************************************)
(* useHTMLImage(background?.url): the effect on [url] and the load         *)
(* callbacks of the Image objects it creates.  An Image is named by the    *)
(* url it loads.                                                           *)
(***************************************************************************)

\* data URLs of the files a user uploads
BackgroundUrls == {"bgA", "bgB"}

\* background={backgroundImage ? { url: backgroundImage.url } : null}
BackgroundUrlProp ==
    IF IsSome(backgroundImage) THEN Some(Get(backgroundImage).url) ELSE None

\* the effect has run for the url of the last render
ImageEffectDone == ~editorMounted \/ bgEffectUrl = BackgroundUrlProp

\* the effect of the first render (url undefined: setImage(null)) and of
\* every render with another url: no url sets the image to null, a url
\* creates an Image and starts its load; the effect returns no cleanup, so
\* the Images created before keep their onload and onerror
RunImageEffect ==
    /\ editorMounted
    /\ ~crashed
    /\ bgEffectUrl # BackgroundUrlProp
    /\ bgEffectUrl' = BackgroundUrlProp
    /\ IF BackgroundUrlProp = None
       THEN bgImage' = None /\ UNCHANGED bgLoads
       ELSE bgLoads' = bgLoads \cup {Get(BackgroundUrlProp)} /\ UNCHANGED bgImage
    /\ UNCHANGED <<page, cacheVars, renderVars, proxyVars,
                   maskVars, persistVars, lastPointer, now, sceneVars,
                   backgroundImage, containerRect, canvasSize, hostDragVars,
                   exportVars, editorMounted, selectedId>>

\* img.onload = () => setImage(img)
ImageAfterLoad(url) == Some(url)

ImageLoaded(url) ==
    /\ editorMounted
    /\ ~crashed
    /\ url \in bgLoads
    /\ bgLoads' = bgLoads \ {url}
    /\ bgImage' = ImageAfterLoad(url)
    /\ UNCHANGED <<page, cacheVars, renderVars, proxyVars, bgEffectUrl,
                   maskVars, persistVars, lastPointer, now, sceneVars,
                   backgroundImage, containerRect, canvasSize, hostDragVars,
                   exportVars, editorMounted, selectedId>>

\* img.onerror = () => setImage(null)
ImageFailed(url) ==
    /\ editorMounted
    /\ ~crashed
    /\ url \in bgLoads
    /\ bgLoads' = bgLoads \ {url}
    /\ bgImage' = None
    /\ UNCHANGED <<page, cacheVars, renderVars, proxyVars, bgEffectUrl,
                   maskVars, persistVars, lastPointer, now, sceneVars,
                   backgroundImage, containerRect, canvasSize, hostDragVars,
                   exportVars, editorMounted, selectedId>>

HandleMouseDown(p, i) ==
    /\ Ready
    /\ page = "builder"
    /\ i \in 1..Len(draggableImages)
    /\ LET imageId == draggableImages[i].id
           image == draggableImages[FindIndex(draggableImages, imageId)]
       IN /\ draggedImage' = Some(imageId)
          /\ dragOffset' = <<p[1] - image.x, p[2] - image.y>>
    /\ UNCHANGED <<page, serviceVars, maskVars, persistVars, lastPointer, now, sceneVars, backgroundImage, containerRect,
                   canvasSize, isDraggingBackground, backgroundDragOffset,
                   exportVars, editorMounted, selectedId>>

HandleBackgroundMouseDown(p) ==
    /\ Ready
    /\ page = "builder"
    /\ IsSome(backgroundImage)
    /\ isDraggingBackground' = TRUE
    /\ backgroundDragOffset' = <<p[1] - Get(backgroundImage).x,
                                 p[2] - Get(backgroundImage).y>>
    /\ UNCHANGED <<page, serviceVars, maskVars, persistVars, lastPointer, now, sceneVars, backgroundImage, containerRect,
                   canvasSize, draggedImage, dragOffset, exportVars,
                   editorMounted, selectedId>>

\* Math.max(0, Math.min(newX, rect.width - img.width))
HostBound(v, size, rectSize) == Max(0, Min(v, rectSize - size))

\* Math.max(-prev.width/2, Math.min(newX, rect.width - prev.width/2))
BackgroundBound(v, size, rectSize) ==
    Max(-(size \div 2), Min(v, rectSize - (size \div 2)))

HandleMouseMove(p) ==
    /\ Ready
    /\ page = "builder"
    /\ IF IsSome(draggedImage)
       THEN LET newX == p[1] - dragOffset[1]
                newY == p[2] - dragOffset[2]
            IN /\ draggableImages' =
                     [j \in 1..Len(draggableImages) |->
                        LET img == draggableImages[j]
                        IN IF img.id = Get(draggedImage)
                           THEN [img EXCEPT
                                   !.x = HostBound(newX, img.width, containerRect[1]),
                                   !.y = HostBound(newY, img.height, containerRect[2])]
                           ELSE img]
               /\ effectsPending' = TRUE
               /\ Logged("hostDrag", Get(draggedImage),
                         FindIndex(draggableImages, Get(draggedImage)), <<>>)
               /\ UNCHANGED backgroundImage
       ELSE /\ isDraggingBackground
            /\ IsSome(backgroundImage)
            /\ LET prev == Get(backgroundImage)
                   newX == p[1] - backgroundDragOffset[1]
                   newY == p[2] - backgroundDragOffset[2]
               IN backgroundImage' = Some([prev EXCEPT
                     !.x = BackgroundBound(newX, prev.width, containerRect[1]),
                     !.y = BackgroundBound(newY, prev.height, containerRect[2])])
            /\ effectsPending' = TRUE
            /\ UNCHANGED <<draggableImages, lastOp, prevOp>>
    /\ UNCHANGED <<page, serviceVars, maskVars, persistVars, lastPointer, now, selectedImageUrls, selectedImageId, issuedIds,
                   containerRect, canvasSize, hostDragVars, exportVars,
                   editorMounted, selectedId>>

HandleMouseUp ==
    /\ Ready
    /\ page = "builder"
    /\ IsSome(draggedImage) \/ isDraggingBackground
    /\ draggedImage' = None
    /\ dragOffset' = <<0, 0>>
    /\ isDraggingBackground' = FALSE
    /\ backgroundDragOffset' = <<0, 0>>
    /\ UNCHANGED <<page, serviceVars, maskVars, persistVars, lastPointer, now, sceneVars, backgroundImage, containerRect,
                   canvasSize, exportVars, editorMounted, selectedId>>

(***************************************************************************)
(* Specifications.                                                         *)
(***************************************************************************)
\* container sizes: the default one and a narrow, tall one
(***************************************************************************)
(* Masking and selection in the editor: mask mode and polygon points are   *)
(* props the host owns, the brush stroke and the selection are the         *)
(* editor's.                                                               *)
(***************************************************************************)

\* maskMode prop: the host renders the editor with another mode
SetMaskMode(m) ==
    /\ Ready
    /\ m \in MaskModes
    /\ m # maskMode
    /\ maskMode' = m
    /\ UNCHANGED <<page, serviceVars, polygonPoints, isPainting, brushPainted,
                   brushMaskImage, persistVars, lastPointer, now, sceneVars,
                   backgroundImage, containerRect, canvasSize, hostDragVars,
                   exportVars, editorMounted, selectedId>>

\* pointer positions of the clicks that add polygon points
PolygonClickPositions == {<<100, 100>>, <<300, 200>>}

\* onClick of the overlay Rect: onPolygonPointsChange([...polygonPoints, pos]);
\* the mouse-down before it has the Rect as target and selects nothing
PolygonClick(pos) ==
    /\ Ready
    /\ editorMounted
    /\ maskMode = "polygon"
    /\ Len(polygonPoints) < MaxPoints
    /\ polygonPoints' = Append(polygonPoints, pos)
    /\ lastPointer' = [target |-> "overlay", id |-> MakeId("", 0),
                       notified |-> None]
    /\ UNCHANGED <<page, serviceVars, maskMode, isPainting, brushPainted, brushMaskImage,
                   persistVars, now, sceneVars, backgroundImage,
                   containerRect, canvasSize, hostDragVars, exportVars,
                   editorMounted, selectedId>>

\* faulty variant: a mouse-down that never clears the selection
SelectionAfterMouseDownKept(targetIsStage, sel) == sel

\* if (e.target === e.target.getStage()) setSelectedId(null)
SelectionAfterMouseDown(targetIsStage, sel) ==
    IF targetIsStage THEN None ELSE sel

\* if (maskMode !== "brush") return; setIsPainting(true)
StartPainting(mode, painting) == IF mode = "brush" THEN TRUE ELSE painting

\* Stage onMouseDown on an empty area: in polygon mode the overlay Rect
\* covers the stage, so the stage itself is the target in the other modes
StageMouseDown ==
    /\ Ready
    /\ editorMounted
    /\ maskMode # "polygon"
    /\ selectedId' = SelectionAfterMouseDown(TRUE, selectedId)
    /\ isPainting' = StartPainting(maskMode, isPainting)
    /\ lastPointer' = [target |-> "stage", id |-> MakeId("", 0),
                       notified |-> None]
    /\ UNCHANGED <<page, serviceVars, maskMode, polygonPoints, brushPainted,
                   brushMaskImage, persistVars, now, sceneVars,
                   backgroundImage, containerRect, canvasSize, hostDragVars,
                   exportVars, editorMounted>>

\* paint(): a circle on the brush layer's canvas, then layer.batchDraw()
Paint(keeps) ==
    /\ Ready
    /\ editorMounted
    /\ isPainting
    /\ maskMode = "brush"
    /\ keeps \in RedrawKeeps
    /\ brushPainted' = keeps
    /\ UNCHANGED <<page, serviceVars, maskMode, polygonPoints, isPainting, brushMaskImage,
                   persistVars, lastPointer, now, sceneVars, backgroundImage,
                   containerRect, canvasSize, hostDragVars, exportVars,
                   editorMounted, selectedId>>

\* stopPainting on pointer up, then the effect on [isPainting] that takes
\* the snapshot of the brush layer
StopPainting ==
    /\ Ready
    /\ editorMounted
    /\ isPainting
    /\ isPainting' = FALSE
    /\ brushMaskImage' = Some(brushPainted)
    /\ UNCHANGED <<page, serviceVars, maskMode, polygonPoints, brushPainted, persistVars,
                   lastPointer, now, sceneVars, backgroundImage,
                   containerRect, canvasSize, hostDragVars, exportVars,
                   editorMounted, selectedId>>

(***************************************************************************)
(* Reload and hydration of the builder page, load of a saved project.      *)
(***************************************************************************)

\* The browser reloads the page: every React state is back at its initial
\* value, localStorage stays.
ReloadPage ==
    /\ Ready
    /\ page = "builder"
    /\ sceneAtReload' = Some([images |-> draggableImages,
                              background |-> backgroundImage])
    /\ hydration' = Some(MountPhase)
    /\ draggableImages' = <<>>
    /\ selectedImageUrls' = <<>>
    /\ selectedImageId' = None
    /\ backgroundImage' = None
    /\ effectsPending' = FALSE
    /\ containerRect' = <<DefaultCanvasWidth, DefaultCanvasHeight>>
    /\ canvasSize' = <<DefaultCanvasWidth, DefaultCanvasHeight>>
    /\ draggedImage' = None
    /\ dragOffset' = <<0, 0>>
    /\ isDraggingBackground' = FALSE
    /\ backgroundDragOffset' = <<0, 0>>
    /\ exportToken' = 0
    /\ editorMounted' = FALSE
    /\ selectedId' = None
    /\ prevExportTokenRef' = None
    /\ exportEffectPending' = FALSE
    /\ transformersVisible' = <<TRUE>>
    /\ firstToken' = None
    /\ maskMode' = "none"
    /\ polygonPoints' = <<>>
    /\ isPainting' = FALSE
    /\ brushPainted' = FALSE
    /\ brushMaskImage' = None
    /\ lastPointer' = NoPointer
    /\ Logged("reload", MakeId("", 0), 0, draggableImages)
    /\ cachedProducts' = None
    /\ inflight' = None
    /\ flights' = <<>>
    /\ callerState' = [c \in Callers |-> IdleCaller]
    /\ renderedItems' = None
    /\ bgImage' = None
    /\ bgLoads' = {}
    /\ bgEffectUrl' = None
    /\ UNCHANGED <<page, proxyVars, now, storedImages, storedBackground, onExportId,
                   exportRuns, crashed, issuedIds>>

\* The effects of the first render, in the order of the source: the load
\* effect reads both keys and schedules the state updates, the two save
\* effects see the initial state and remove both keys, the sync effect
\* sets no urls.
MountPage ==
    /\ ~crashed
    /\ page = "builder"
    /\ hydration = Some(MountPhase)
    /\ hydration' =
          LET loaded == LoadState(storedImages, storedBackground)
          IN IF loaded.images = None /\ loaded.background = None
             THEN None ELSE Some(loaded)
    /\ storedImages' = SaveImages(draggableImages)
    /\ storedBackground' = SaveBackground(backgroundImage)
    /\ selectedImageUrls' = SyncedUrls(draggableImages, selectedImageUrls)
    /\ UNCHANGED <<page, serviceVars, maskVars, sceneAtReload, lastPointer, now,
                   draggableImages, selectedImageId, effectsPending,
                   issuedIds, lastOp, prevOp, backgroundImage, containerRect,
                   canvasSize, hostDragVars, exportVars, editorMounted,
                   selectedId>>

\* faulty variant: a render that takes any value for a list
RendersAny(value) == TRUE

\* draggableImages.map(...) and draggableImages.length in the render
Renders(value) == value.type = "array"

\* The render with the state the load effect has set: a value that is no
\* array throws in draggableImages.map and the page is gone.
ApplyHydration ==
    /\ ~crashed
    /\ hydration # None
    /\ Get(hydration).phase = "apply"
    /\ hydration' = None
    /\ LET h == Get(hydration)
           ok == h.images = None \/ Renders(Get(h.images))
       IN /\ crashed' = ~ok
          /\ draggableImages' =
                IF h.images # None /\ ok
                THEN [i \in DOMAIN Get(h.images).items |->
                        ParseLayer(Get(h.images).items[i])]
                ELSE draggableImages
          /\ backgroundImage' =
                IF h.background # None /\ ok
                THEN Some(ParseBackground(Get(h.background).items[1]))
                ELSE backgroundImage
          /\ effectsPending' = ok
    /\ Logged("hydrate", MakeId("", 0), 0, draggableImages)
    /\ UNCHANGED <<page, serviceVars, maskVars, storedImages, storedBackground,
                   sceneAtReload, lastPointer, now, selectedImageUrls,
                   selectedImageId, issuedIds, containerRect, canvasSize,
                   hostDragVars, exportToken, onExportId, prevExportTokenRef,
                   exportEffectPending, transformersVisible, exportRuns,
                   firstToken, editorMounted, selectedId>>

\* a draggableImages value of a project that is no string
JsonValue(type, items) == [kind |-> "value", type |-> type, items |-> items]

\* loadProject: a string is parsed inside try/catch and taken as it is, an
\* array is taken, anything else gives the empty list
ParseProjectImages(raw) ==
    IF raw = None THEN JsonValue("array", <<>>)
    ELSE IF Get(raw).kind = "text" THEN JsonValue("array", <<>>)
    ELSE IF Get(raw).kind = "json"
         THEN JsonValue(Get(raw).type, Get(raw).items)
    ELSE IF Get(raw).type = "array" THEN Get(raw)
    ELSE JsonValue("array", <<>>)

StoredLayer == StringifyLayer(NewLayer("u1", 0, RandomBase, RandomBase))

\* draggableImages values a project record can hold
ProjectImages ==
    {None, Some(Unparsable), Some(JsonArray(<<StoredLayer>>)),
     Some(JsonObject(StoredLayer)), Some(JsonValue("array", <<StoredLayer>>)),
     Some(JsonValue("object", <<StoredLayer>>))}

\* ProjectViewPage: loadProject, then the render with the parsed list
LoadProject(raw) ==
    /\ ~crashed
    /\ page = "project"
    /\ hydration = Some(MountPhase)
    /\ hydration' = None
    /\ LET parsed == ParseProjectImages(raw)
       IN /\ crashed' = ~Renders(parsed)
          /\ draggableImages' =
                IF Renders(parsed)
                THEN [i \in DOMAIN parsed.items |-> ParseLayer(parsed.items[i])]
                ELSE draggableImages
    /\ Logged("hydrate", MakeId("", 0), 0, draggableImages)
    /\ UNCHANGED <<page, serviceVars, maskVars, storedImages, storedBackground,
                   sceneAtReload, lastPointer, now, selectedImageUrls,
                   selectedImageId, effectsPending, issuedIds,
                   backgroundImage, containerRect, canvasSize, hostDragVars,
                   exportToken, onExportId, prevExportTokenRef,
                   exportEffectPending, transformersVisible, exportRuns,
                   firstToken, editorMounted, selectedId>>

\* the values of the background layer select
LayerRanks == {-1, 0, 1}

\* updateBackgroundLayer(zIndex) of the older builder page
UpdateBackgroundLayer(zIndex) ==
    /\ Ready
    /\ page = "builderLegacy"
    /\ IsSome(backgroundImage)
    /\ backgroundImage' = Some([Get(backgroundImage) EXCEPT !.zIndex = zIndex])
    /\ effectsPending' = TRUE
    /\ Logged("background", MakeId("", 0), 0, draggableImages)
    /\ UNCHANGED <<page, serviceVars, maskVars, persistVars, lastPointer, now,
                   draggableImages, selectedImageUrls, selectedImageId,
                   issuedIds, containerRect, canvasSize, hostDragVars,
                   exportVars, editorMounted, selectedId>>

(***************************************************************************)
(* productsCache: loadProductsOnce and the product load effects of the     *)
(* pages.  A request is numbered by its place in flights; a promise is     *)
(* the number of its request.                                              *)
(***************************************************************************)

\* how a request to /api/products can settle: a list of products, a JSON
\* answer that is no success, or a throw of fetch or res.json()
FetchOutcomes == {"ok", "notOk", "throw"}
ApiProducts == {<<>>, <<"p1">>, <<"p1", "p2">>}

\* faulty variant: a call that does not look at the request in flight
JoinsInflightNever(cached, flying) == FALSE

\* if (cachedProducts) return cachedProducts; if (inflight) return inflight
JoinsInflight(cached, flying) == cached = None /\ flying # None

\* the page's effect: getCachedProducts(), else loadProductsOnce()
LoadProducts(c) ==
    /\ callerState[c].pc = "idle"
    /\ IF cachedProducts # None
       THEN /\ callerState' = [callerState EXCEPT ![c] =
                  [pc |-> "done", promise |-> 0,
                   result |-> <<"ok", Get(cachedProducts)>>]]
            /\ UNCHANGED <<inflight, flights>>
       ELSE IF JoinsInflight(cachedProducts, inflight)
       THEN /\ callerState' = [callerState EXCEPT ![c] =
                  [pc |-> "awaiting", promise |-> Get(inflight),
                   result |-> <<>>]]
            /\ UNCHANGED <<inflight, flights>>
       ELSE /\ Len(flights) < MaxRequests
            /\ flights' = Append(flights,
                  [state |-> "pending", outcome |-> "none", result |-> <<>>,
                   cachedAtStart |-> cachedProducts # None,
                   inflightAfter |-> None, cachedAfter |-> None])
            /\ inflight' = Some(Len(flights) + 1)
            /\ callerState' = [callerState EXCEPT ![c] =
                  [pc |-> "awaiting", promise |-> Len(flights) + 1,
                   result |-> <<>>]]
    /\ UNCHANGED <<page, renderVars, loadVars, proxyVars, cachedProducts,
                   maskVars, persistVars, lastPointer, now, sceneVars,
                   backgroundImage, containerRect, canvasSize, hostDragVars,
                   exportVars, editorMounted, selectedId>>

\* faulty variant: a request that keeps its marker when it throws
InflightAfterSettleKept(outcome, flying) ==
    IF outcome = "throw" THEN flying ELSE None

\* finally { inflight = null }
InflightAfterSettle(outcome, flying) == None

\* cachedProducts = withIds on success, cachedProducts = [] on an answer
\* that is no success, no assignment when fetch or res.json() throws
CacheAfterSettle(outcome, products, cached) ==
    CASE outcome = "ok" -> Some(products)
      [] outcome = "notOk" -> Some(<<>>)
      [] OTHER -> cached

\* the body of the async function after its awaits: cache, return, finally
Settle(n, outcome, products) ==
    /\ n \in 1..Len(flights)
    /\ flights[n].state = "pending"
    /\ cachedProducts' = CacheAfterSettle(outcome, products, cachedProducts)
    /\ inflight' = InflightAfterSettle(outcome, inflight)
    /\ flights' = [flights EXCEPT ![n] =
          [state |-> "settled", outcome |-> outcome,
           result |-> IF outcome = "ok" THEN <<"ok", products>>
                      ELSE IF outcome = "notOk" THEN <<"ok", <<>>>>
                      ELSE <<"rejected", <<>>>>,
           cachedAtStart |-> flights[n].cachedAtStart,
           inflightAfter |-> inflight', cachedAfter |-> cachedProducts']]
    /\ UNCHANGED <<page, renderVars, loadVars, proxyVars, callerState,
                   maskVars, persistVars, lastPointer, now, sceneVars,
                   backgroundImage, containerRect, canvasSize, hostDragVars,
                   exportVars, editorMounted, selectedId>>

\* the continuation of await loadProductsOnce() in the page's effect
Deliver(c) ==
    /\ callerState[c].pc = "awaiting"
    /\ flights[callerState[c].promise].state = "settled"
    /\ callerState' = [callerState EXCEPT ![c] =
          [pc |-> "done", promise |-> callerState[c].promise,
           result |-> flights[callerState[c].promise].result]]
    /\ UNCHANGED <<page, renderVars, loadVars, proxyVars, cachedProducts,
                   inflight, flights, maskVars, persistVars, lastPointer, now,
                   sceneVars, backgroundImage, containerRect, canvasSize,
                   hostDragVars, exportVars, editorMounted, selectedId>>

\* the page is left and entered again: its effect runs once more
Remount(c) ==
    /\ callerState[c].pc = "done"
    /\ callerState' = [callerState EXCEPT ![c] = IdleCaller]
    /\ UNCHANGED <<page, renderVars, loadVars, proxyVars, cachedProducts,
                   inflight, flights, maskVars, persistVars, lastPointer, now,
                   sceneVars, backgroundImage, containerRect, canvasSize,
                   hostDragVars, exportVars, editorMounted, selectedId>>

(***************************************************************************)
(* /api/proxy-image: GET                                                   *)
(***************************************************************************)

\* values of the url parameter: absent, not a URL, another protocol, a plain
\* http(s) image address, a shared-drive file address, a shared-drive
\* address without a file id
ImageUrls == {"", "not a url", "ftp://host/a.png", "https://host/a.png",
              "https://drive.google.com/file/d/F1/view",
              "https://drive.google.com/drive/my-drive"}

\* new URL(imageUrl) throws
UrlParses(u) == u \notin {"", "not a url"}
UrlProtocol(u) == IF u = "ftp://host/a.png" THEN "ftp:" ELSE "https:"

\* convertGoogleDriveUrl: a drive address with a file id becomes the
\* thumbnail address, every other address is returned as it is
ConvertGoogleDriveUrl(u) ==
    IF u = "https://drive.google.com/file/d/F1/view"
    THEN "https://drive.google.com/thumbnail?id=F1&sz=w2000"
    ELSE u

\* convertedUrl.includes('drive.google.com') &&
\* convertedUrl.includes('thumbnail') && convertedUrl.match(/id=(...)/)
IsDriveThumbnail(u) == u = "https://drive.google.com/thumbnail?id=F1&sz=w2000"

\* what a fetch of the source does: it throws, or it answers with a status
\* and a content-type header ("" when the header is absent)
Unreachable == [reached |-> FALSE, status |-> 0, contentType |-> ""]
UpstreamAnswers ==
    {Unreachable} \cup
    [reached : {TRUE}, status : {200, 404},
     contentType : {"image/png", "text/html", ""}]

ResponseOk(answer) == answer.status \in 200..299
IsImageType(contentType) == contentType = "image/png"

JsonError(status) == [status |-> status, body |-> "json", contentType |-> "application/json"]
Bytes(contentType) == [status |-> 200, body |-> "bytes", contentType |-> contentType]

\* the fallback download of a drive thumbnail that was no success
FallbackDownload(first, second) ==
    IF ~second.reached THEN JsonError(500)
    ELSE IF ResponseOk(second)
    THEN Bytes(IF second.contentType = "" THEN "image/jpeg"
               ELSE second.contentType)
    ELSE JsonError(first.status)

\* GET: first the answer of fetch(convertedUrl), second the answer of the
\* fallback fetch(downloadUrl)
GET(u, first, second) ==
    IF u = "" THEN JsonError(400)
    ELSE IF ~UrlParses(u) THEN JsonError(500)
    ELSE IF UrlProtocol(u) \notin {"http:", "https:"} THEN JsonError(400)
    ELSE IF ~first.reached THEN JsonError(500)
    ELSE IF ~ResponseOk(first)
    THEN IF IsDriveThumbnail(ConvertGoogleDriveUrl(u))
         THEN FallbackDownload(first, second)
         ELSE JsonError(first.status)
    ELSE IF ~IsImageType(first.contentType) THEN JsonError(403)
    ELSE Bytes(first.contentType)

\* one request to the proxy and what the source does when fetched
ProxyGET(u, first, second) ==
    /\ proxyExchange' = Some([url |-> u, first |-> first, second |-> second,
                              response |-> GET(u, first, second)])
    /\ UNCHANGED <<page, cacheVars, renderVars, loadVars,
                   maskVars, persistVars, lastPointer, now, sceneVars,
                   backgroundImage, containerRect, canvasSize, hostDragVars,
                   exportVars, editorMounted, selectedId>>

NextProxy ==
    \E u \in ImageUrls, first \in UpstreamAnswers, second \in UpstreamAnswers :
       ProxyGET(u, first, second)

SpecProxy == Init /\ [][NextProxy]_vars

\* host mutations and drag commits; a host mutation is a click, handled
\* after the outstanding render
NextRender ==
    \/ \E url \in Urls :
          Rendered /\ AddToMoodboard(url, RandomBase, RandomBase, MaxRenderLayers)
    \/ Rendered /\ RemoveImage
    \/ SyncSelectedUrlsEffect
    \/ MountEditor
    \/ \E outcome \in {"ok"} : RunExportEffect(outcome)
    \/ \E i \in 1..MaxRenderLayers : Rendered /\ ImageClick(i)
    \/ Rendered /\ FlipImageHorizontal
    \/ \E i \in 1..MaxRenderLayers, pos \in DragPositions : CommitDragMove(i, pos)
    \/ Render

SpecRender == Init /\ [][NextRender]_vars

\* transform gestures on flipped and unflipped layers
NextFlip ==
    \/ \E url \in Urls :
          AddToMoodboard(url, RandomBase, RandomBase, MaxFlipLayers)
    \/ SyncSelectedUrlsEffect
    \/ MountEditor
    \/ \E outcome \in {"ok"} : RunExportEffect(outcome)
    \/ \E i \in 1..MaxFlipLayers : ImageClick(i)
    \/ FlipImageHorizontal
    \/ \E gx \in GestureFactors, gy \in GestureFactors, axis \in MirrorAxes,
          pos \in TransformPositions, rot \in Rotations :
          TransformGesture(gx, gy, axis, pos, rot)

SpecFlip == Init /\ [][NextFlip]_vars

\* the background under uploads, removal and image loads; the image effect
\* runs before the next event
NextLoad ==
    \/ MountEditor
    \/ SyncSelectedUrlsEffect
    \/ RunImageEffect
    \/ \E url \in BackgroundUrls : ImageEffectDone /\ HandleBackgroundUploadOf(url)
    \/ ImageEffectDone /\ RemoveBackgroundImage
    \/ ImageEffectDone /\ ClearMoodboard
    \/ \E url \in BackgroundUrls : ImageLoaded(url)
    \/ \E url \in BackgroundUrls : ImageFailed(url)
    \/ \E outcome \in {"ok"} : RunExportEffect(outcome)

SpecLoad == Init /\ [][NextLoad]_vars

ContainerRects == {<<DefaultCanvasWidth, DefaultCanvasHeight>>, <<100, 300>>}

\* export protocol: scene filling, mount, token changes, re-renders, effect
NextExport ==
    \/ AddToMoodboard("u1", RandomBase, RandomBase, 1)
    \/ SyncSelectedUrlsEffect
    \/ MountEditor
    \/ DownloadMoodboard
    \/ \E rect \in ContainerRects : ResizeContainer(rect)
    \/ ChangeOnExport
    \/ \E outcome \in ExportOutcomes : RunExportEffect(outcome)

SpecExport == Init /\ [][NextExport]_vars

\* scene membership: add, remove one, remove by url, clear, on either page
NextScene ==
    \/ Tick
    \/ \E url \in Urls :
          AddToMoodboard(url, RandomBase, RandomBase, MaxLayers)
    \/ \E url \in Urls : RemoveFromMoodboard(url)
    \/ RemoveImage
    \/ ClearMoodboard
    \/ SyncSelectedUrlsEffect
    \/ MountEditor
    \/ \E outcome \in ExportOutcomes : RunExportEffect(outcome)
    \/ \E i \in 1..MaxLayers : ImageClick(i)

SpecScene == InitPages /\ [][NextScene]_vars

\* layer order: bringToFront / sendToBack of the selected layer
NextOrder ==
    \/ Tick
    \/ \E rx \in RandomXs : AddToMoodboard("u1", rx, RandomBase, MaxLayers)
    \/ BringToFront
    \/ SendToBack
    \/ SyncSelectedUrlsEffect
    \/ MountEditor
    \/ \E outcome \in ExportOutcomes : RunExportEffect(outcome)
    \/ \E i \in 1..MaxLayers : ImageClick(i)

SpecOrder == Init /\ [][NextOrder]_vars


\* geometry: add, select, drag and transform in the editor, the host's mouse
\* handlers, container resizes
NextGeom ==
    \/ \E url \in Urls :
          AddToMoodboard(url, RandomBase, RandomBase, MaxGeomLayers)
    \/ SyncSelectedUrlsEffect
    \/ MountEditor
    \/ \E outcome \in ExportOutcomes : RunExportEffect(outcome)
    \/ \E i \in 1..MaxGeomLayers : ImageClick(i)
    \/ \E rect \in ContainerRects : ResizeContainer(rect)
    \/ \E i \in 1..MaxGeomLayers, pos \in DragPositions : DragMove(i, pos)
    \/ \E g \in Gestures, pos \in TransformPositions, rot \in Rotations :
          TransformEnd(g[1], g[2], pos, rot)
    \/ \E p \in MouseDownPositions, i \in 1..MaxGeomLayers :
          HandleMouseDown(p, i)
    \/ \E p \in MouseMovePositions : HandleMouseMove(p)
    \/ HandleMouseUp

SpecGeom == Init /\ [][NextGeom]_vars


(***************************************************************************)
(* Claims on the export protocol.                                          *)
\* Masking, selection and export in the editor
NextMask ==
    \/ AddToMoodboard("u1", RandomBase, RandomBase, MaxMaskLayers)
    \/ SyncSelectedUrlsEffect
    \/ MountEditor
    \/ \E o \in ExportOutcomes : RunExportEffect(o)
    \/ DownloadMoodboard
    \/ \E m \in MaskModes : SetMaskMode(m)
    \/ \E pos \in PolygonClickPositions : PolygonClick(pos)
    \/ StageMouseDown
    \/ \E k \in RedrawKeeps : Paint(k)
    \/ StopPainting

SpecMask == Init /\ [][NextMask]_vars

\* what localStorage can hold when the builder page loads
StoredBackground ==
    StringifyBackground([url |-> "bg", x |-> 0, y |-> 0,
                         width |-> BackgroundWidth,
                         height |-> BackgroundHeight, zIndex |-> -1])
InitialImages ==
    {None, Some(Unparsable), Some(JsonObject(StoredLayer)),
     Some(JsonArray(<<StoredLayer>>))}
InitialBackgrounds == {None, Some(Unparsable), Some(JsonObject(StoredBackground))}

\* a page that loads: the builder with some localStorage, or the project
\* view
InitPersist ==
    /\ page \in {"builder", "project"}
    /\ now = 0
    /\ draggableImages = <<>>
    /\ selectedImageUrls = <<>>
    /\ selectedImageId = None
    /\ backgroundImage = None
    /\ effectsPending = FALSE
    /\ containerRect = <<DefaultCanvasWidth, DefaultCanvasHeight>>
    /\ canvasSize = <<DefaultCanvasWidth, DefaultCanvasHeight>>
    /\ draggedImage = None
    /\ dragOffset = <<0, 0>>
    /\ isDraggingBackground = FALSE
    /\ backgroundDragOffset = <<0, 0>>
    /\ exportToken = 0
    /\ onExportId = 0
    /\ editorMounted = FALSE
    /\ selectedId = None
    /\ prevExportTokenRef = None
    /\ exportEffectPending = FALSE
    /\ transformersVisible = <<TRUE>>
    /\ exportRuns = <<>>
    /\ firstToken = None
    /\ crashed = FALSE
    /\ issuedIds = <<>>
    /\ lastOp = NoOp
    /\ prevOp = NoOp
    /\ maskMode = "none"
    /\ polygonPoints = <<>>
    /\ isPainting = FALSE
    /\ brushPainted = FALSE
    /\ brushMaskImage = None
    /\ lastPointer = NoPointer
    /\ storedImages \in (IF page = "builder" THEN InitialImages ELSE {None})
    /\ storedBackground \in
          (IF page = "builder" THEN InitialBackgrounds ELSE {None})
    /\ hydration = Some(MountPhase)
    /\ sceneAtReload = None
    /\ InitServices

\* Persistence: edits, reloads and hydration
NextPersist ==
    \/ page = "builder"
         /\ AddToMoodboard("u1", RandomBase, RandomBase, MaxPersistLayers)
    \/ page = "builder" /\ SyncSelectedUrlsEffect
    \/ MountEditor
    \/ RunExportEffect("ok")
    \/ page = "builder"
         /\ \E i \in 1..MaxPersistLayers, pos \in DragPositions :
               DragMove(i, pos)
    \/ HandleBackgroundUpload
    \/ page = "builder" /\ ClearMoodboard
    \/ ReloadPage
    \/ MountPage
    \/ ApplyHydration
    \/ \E raw \in ProjectImages : LoadProject(raw)

SpecPersist == InitPersist /\ [][NextPersist]_vars

\* The mouse handlers of the builder page on layers and background
NextHostDrag ==
    \/ \E url \in Urls :
          AddToMoodboard(url, RandomBase, RandomBase, MaxGeomLayers)
    \/ SyncSelectedUrlsEffect
    \/ HandleBackgroundUpload
    \/ \E p \in MouseDownPositions, i \in 1..MaxGeomLayers :
          HandleMouseDown(p, i)
    \/ \E p \in MouseDownPositions : HandleBackgroundMouseDown(p)
    \/ \E p \in MouseMovePositions : HandleMouseMove(p)
    \/ HandleMouseUp

SpecHostDrag == Init /\ [][NextHostDrag]_vars

\* gesture of the commits on two layers: a mirrored resize
CommitGestures == {<<Ratio(-1, 1), Ratio(1, 1)>>}

\* Drag and transform commits on a scene of two layers
NextCommit ==
    \/ Tick
    \/ AddToMoodboard("u1", RandomBase, RandomBase, MaxCommitLayers)
    \/ SyncSelectedUrlsEffect
    \/ MountEditor
    \/ RunExportEffect("ok")
    \/ \E i \in 1..MaxCommitLayers : ImageClick(i)
    \/ \E i \in 1..MaxCommitLayers, pos \in DragPositions : DragMove(i, pos)
    \/ \E g \in CommitGestures, pos \in TransformPositions, rot \in Rotations :
          TransformEnd(g[1], g[2], pos, rot)

SpecCommit == Init /\ [][NextCommit]_vars

\* Background and layers of either builder page in the editor
NextBackground ==
    \/ \E url \in Urls :
          AddToMoodboard(url, RandomBase, RandomBase, MaxBackgroundLayers)
    \/ SyncSelectedUrlsEffect
    \/ HandleBackgroundUpload
    \/ \E z \in LayerRanks : UpdateBackgroundLayer(z)
    \/ ClearMoodboard
    \/ MountEditor
    \/ RunExportEffect("ok")

SpecBackground == InitPages /\ [][NextBackground]_vars

\* Placement of new layers on canvases of several sizes
NextPlace ==
    \/ \E url \in Urls, rx \in RandomXs, ry \in RandomYs :
          AddToMoodboard(url, rx, ry, MaxPlaceLayers)
    \/ SyncSelectedUrlsEffect
    \/ \E rect \in ContainerRects : ResizeContainer(rect)

SpecPlace == Init /\ [][NextPlace]_vars

\* The image controls and the removals of the builder page
NextControls ==
    \/ \E url \in Urls :
          AddToMoodboard(url, RandomBase, RandomBase, MaxControlLayers)
    \/ \E url \in Urls : RemoveFromMoodboard(url)
    \/ RemoveImage
    \/ SyncSelectedUrlsEffect
    \/ MountEditor
    \/ RunExportEffect("ok")
    \/ \E i \in 1..MaxControlLayers : ImageClick(i)
    \/ \E d \in RotationSteps : RotateImage(d)
    \/ FlipImageHorizontal
    \/ BringToFront
    \/ SendToBack

SpecControls == Init /\ [][NextControls]_vars

\* The product cache under calls from the pages
NextCache ==
    \/ \E c \in Callers : LoadProducts(c)
    \/ \E n \in 1..MaxRequests, o \in FetchOutcomes, ps \in ApiProducts :
          Settle(n, o, ps)
    \/ \E c \in Callers : Deliver(c)
    \/ \E c \in Callers : Remount(c)

SpecCache == Init /\ [][NextCache]_vars

\* Selection in the editor, in every mask mode
NextSelect ==
    \/ \E url \in Urls :
          AddToMoodboard(url, RandomBase, RandomBase, MaxSelectLayers)
    \/ RemoveImage
    \/ SyncSelectedUrlsEffect
    \/ MountEditor
    \/ \E o \in ExportOutcomes : RunExportEffect(o)
    \/ \E i \in 1..MaxSelectLayers : ImageClick(i)
    \/ \E m \in MaskModes : SetMaskMode(m)
    \/ \E pos \in PolygonClickPositions : PolygonClick(pos)
    \/ StageMouseDown
    \/ StopPainting

SpecSelect == Init /\ [][NextSelect]_vars

(***************************************************************************)
\* tokens the host has set since the editor first observed one
ChangedTokens ==
    IF IsSome(firstToken) THEN (Get(firstToken) + 1)..exportToken ELSE {}

\* number of completed exports (onExport called) for token t
Completed(t) ==
    Cardinality({i \in 1..Len(exportRuns) :
                    exportRuns[i].token = t /\ exportRuns[i].outcome = "ok"})

\* C2: after mount, once the export effect has run, onExport has been called
\* exactly once for every token change: never twice for one token value and
\* never skipped for a changed token.
C2_OncePerTokenChange ==
    (editorMounted /\ ~exportEffectPending) =>
        \A t \in 0..(MaxToken + 1) :
            Completed(t) = IF t \in ChangedTokens THEN 1 ELSE 0

\* C3: the first token value the editor observes after mount never triggers
\* an export; every export run is for a token different from the one recorded
\* before it.
C3_FirstTokenNeverExports ==
    IsSome(firstToken) =>
        \A i \in 1..Len(exportRuns) :
            /\ exportRuns[i].token # Get(firstToken)
            /\ i > 1 => exportRuns[i].token # exportRuns[i - 1].token

\* C3 witness: the editor mounted after the token had already changed, the
\* effect has observed it and nothing was exported.
C3_Witness ==
    /\ editorMounted
    /\ ~exportEffectPending
    /\ firstToken = Some(exportToken)
    /\ exportToken > 0
    /\ exportRuns = <<>>

\* C4: after every run of doExport, on every exit path, each transformer has
\* the visibility it had before the export started.
C4_OverlaysRestored ==
    \A i \in 1..Len(exportRuns) :
        i = Len(exportRuns) => transformersVisible = exportRuns[i].before


(***************************************************************************)
(* Claims on the scene operations.                                         *)
(***************************************************************************)
DistinctIds(list) ==
    \A i, j \in 1..Len(list) : i # j => list[i].id # list[j].id

\* number of occurrences of record r in list
Occurrences(list, r) == Cardinality({i \in 1..Len(list) : list[i] = r})

SameLayers(a, b) ==
    /\ Len(a) = Len(b)
    /\ \A r \in Range(a) \cup Range(b) : Occurrences(a, r) = Occurrences(b, r)

\* the layers of list that do not have the id, in order
Others(list, id) == SelectSeq(list, LAMBDA img : img.id # id)

\* C5: for a layer id present in the scene, sendToBack yields a list whose
\* first element is that layer and bringToFront one whose last element is
\* that layer; every other layer keeps its place relative to the others, so
\* the result is a permutation of the input.
C5_ReorderMovesOnlyThatLayer ==
    LET before == lastOp.before
        k == lastOp.idx
        n == Len(before)
    IN /\ (lastOp.op = "sendToBack" /\ k # 0) =>
             /\ Len(draggableImages) = n
             /\ draggableImages[1] = before[k]
             /\ \A j \in 1..n : j # k =>
                   draggableImages[IF j < k THEN j + 1 ELSE j] = before[j]
       /\ (lastOp.op = "bringToFront" /\ k # 0) =>
             /\ Len(draggableImages) = n
             /\ draggableImages[n] = before[k]
             /\ \A j \in 1..n : j # k =>
                   draggableImages[IF j < k THEN j ELSE j - 1] = before[j]

\* C5 witness: [A, B, C] after sendToBack(C) is [C, A, B].
C5_Witness ==
    /\ lastOp.op = "sendToBack"
    /\ Len(lastOp.before) = 3
    /\ DistinctIds(lastOp.before)
    /\ lastOp.idx = 3
    /\ draggableImages =
          <<lastOp.before[3], lastOp.before[1], lastOp.before[2]>>

\* bringToFront immediately followed by sendToBack of the same, present layer
RoundTrip ==
    /\ prevOp.op = "bringToFront"
    /\ lastOp.op = "sendToBack"
    /\ prevOp.id = lastOp.id
    /\ prevOp.idx # 0

\* C6 as stated: bringToFront followed immediately by sendToBack on the same
\* layer restores the original full ordering of all layers.
C6_RoundTripRestoresOrder ==
    RoundTrip => draggableImages = prevOp.before

\* C6 as amended: the round trip leaves a layer with that id first, is a
\* permutation of the original list and keeps the layers with other ids in
\* their original relative order; the original ordering is restored only if
\* the layer was the first one to begin with.
C6_RoundTripKeepsOthers ==
    RoundTrip =>
        /\ draggableImages[1].id = lastOp.id
        /\ SameLayers(draggableImages, prevOp.before)
        /\ Others(draggableImages, lastOp.id) = Others(prevOp.before, lastOp.id)
        /\ draggableImages = prevOp.before => prevOp.idx = 1

\* C6 witness: the round trip on the middle layer of three: [A, B, C] ends
\* as [B, A, C].
C6_Witness ==
    /\ RoundTrip
    /\ Len(prevOp.before) = 3
    /\ DistinctIds(prevOp.before)
    /\ prevOp.idx = 2
    /\ draggableImages =
          <<prevOp.before[2], prevOp.before[1], prevOp.before[3]>>

\* C7: no two layers of the scene share an id, and addToMoodboard never
\* issues an id it has issued before.
C7_IdsUnique ==
    /\ DistinctIds(draggableImages)
    /\ \A i, j \in 1..Len(issuedIds) : i # j => issuedIds[i] # issuedIds[j]

\* C8: right after removeImage(id) on a scene with distinct ids, the scene
\* is the scene before it without the layer with that id: every other layer,
\* also one with the same url, stays in place with its fields; and nothing is
\* selected if the layer was in the scene.
C8_RemovesExactlyThatInstance ==
    (lastOp.op = "removeImage" /\ effectsPending /\ DistinctIds(lastOp.before)) =>
        /\ draggableImages =
              IF lastOp.idx = 0 THEN lastOp.before
              ELSE RemoveAt(lastOp.before, lastOp.idx)
        /\ lastOp.idx # 0 => selectedImageId = None

\* C10: once the pending effects have run, the selected urls are exactly the
\* distinct urls of the layers in the scene.
C10_SelectedUrlsMatchScene ==
    ~effectsPending => Range(selectedImageUrls) = UrlsOf(draggableImages)

\* C10 witness: one of two instances of a url was removed, the effects have
\* run, and the url is still selected.
C10_Witness ==
    /\ lastOp.op = "removeImage"
    /\ ~effectsPending
    /\ lastOp.idx # 0
    /\ Len(draggableImages) = Len(lastOp.before) - 1
    /\ lastOp.id.url \in UrlsOf(draggableImages)
    /\ lastOp.id.url \in Range(selectedImageUrls)


(***************************************************************************)
(* Claims on the geometry.                                                 *)
(***************************************************************************)
\* a drag has just been committed for the layer at lastOp.idx
JustDragged ==
    /\ lastOp.op \in {"drag", "hostDrag"}
    /\ effectsPending
    /\ lastOp.idx \in 1..Len(draggableImages)

C9_ResizeKeepsMinimumSize ==
    (lastOp.op = "transform" /\ effectsPending
        /\ lastOp.idx \in 1..Len(draggableImages)) =>
        /\ draggableImages[lastOp.idx].width >= MinSize
        /\ draggableImages[lastOp.idx].height >= MinSize

\* C9 witness: a mirrored gesture (negative scaleX) on a fresh layer leaves
\* it with width 10 and its height unchanged.
C9_Witness ==
    /\ lastOp.op = "transform"
    /\ effectsPending
    /\ prevOp.op = "add"
    /\ lastOp.idx \in 1..Len(draggableImages)
    /\ draggableImages[lastOp.idx].width = MinSize
    /\ draggableImages[lastOp.idx].height = InitialSize



(***************************************************************************)
(* Overlays, masking and selection (SpecMask).                             *)
(***************************************************************************)

\* C11 (as stated): every image the export reads back holds no authoring
\* overlay: no transform handles, no brush strokes, no polygon preview line.
C11_NoOverlayExported ==
    \A i \in DOMAIN exportRuns :
        exportRuns[i].outcome = "ok" => exportRuns[i].overlays = {}

\* C12 (as stated): with a usable mask (polygon mode with three points or
\* more, brush mode with painted coverage) the background and the items are
\* composited under the clip of that mask.
UsableMask ==
    \/ maskMode = "polygon" /\ Len(polygonPoints) >= 3
    \/ maskMode = "brush" /\ brushPainted
C12_UsableMaskClips ==
    UsableMask => None \notin CompositeClips(CurrentLayers)

\* C13: in polygon mode with fewer than three points itemsClipFunc gives no
\* clip function and the background and the items are composited under the
\* same clips as in mask mode none.
C13_ShortPolygonNoClip ==
    (maskMode = "polygon" /\ Len(polygonPoints) < 3) =>
        /\ ItemsClipFunc(maskMode, PolygonKonvaPoints(polygonPoints),
                         brushMaskImage)
             = ItemsClipFunc("none", PolygonKonvaPoints(polygonPoints),
                             brushMaskImage)
        /\ CompositeClips(CurrentLayers)
             = CompositeClips(StageLayers("none",
                   PolygonKonvaPoints(polygonPoints), backgroundImage,
                   draggableImages, selectedId, transformersVisible,
                   brushPainted))

\* polygon mode with two points, reached through another mode and back
C13_Witness ==
    /\ maskMode = "polygon"
    /\ Len(polygonPoints) = 2
    /\ lastPointer.target = "stage"

C17_HydrationNeverCrashes ==
    lastOp.op = "hydrate" => ~crashed

\* the page has been reloaded and its mount has run to the end
Hydrated ==
    /\ IsSome(sceneAtReload)
    /\ hydration = None
    /\ lastOp.op \in {"reload", "hydrate"}

\* C18: once a reloaded page has run its mount effects and applied what
\* they loaded, the layer list and the background are those the page had
\* when it was reloaded: same layers, same order, same fields.
C18_ReloadReproducesScene ==
    Hydrated =>
        /\ ~crashed
        /\ draggableImages = Get(sceneAtReload).images
        /\ backgroundImage = Get(sceneAtReload).background

\* a background, a layer the editor has committed (rotation 0) and a layer
\* added after it (rotation undefined) have come back from localStorage
C18_Witness ==
    /\ Hydrated
    /\ lastOp.op = "hydrate"
    /\ IsSome(backgroundImage)
    /\ Len(draggableImages) = 2
    /\ draggableImages[1].rotation = Some(0)
    /\ draggableImages[2].rotation = None


(***************************************************************************)
(* Host drags (SpecHostDrag).                                              *)
(***************************************************************************)

CommitKeeps(i) ==
    /\ Len(draggableImages') = Len(draggableImages)
    /\ \A j \in 1..Len(draggableImages) :
          LET before == ToItems(draggableImages)[j]
              after == ToItems(draggableImages')[j]
          IN /\ after.id = before.id
             /\ after.url = before.url
             /\ after.flipHorizontal = before.flipHorizontal
             /\ j # i => after = before

\* C15 (as stated): a drag or transform commit gives the host the whole
\* list, same ids in the same order, where only the target layer's geometry
\* has changed and every other field of every layer is as before.
C15_CommitChangesOnlyTarget ==
    [][/\ \A i \in 1..MaxCommitLayers, pos \in DragPositions :
             DragMove(i, pos) => CommitKeeps(i)
       /\ \A g \in CommitGestures, pos \in TransformPositions,
             rot \in Rotations :
             TransformEnd(g[1], g[2], pos, rot) =>
                CommitKeeps(FindIndex(draggableImages, Get(selectedId)))]_vars


(***************************************************************************)
(* Draw order (SpecBackground).                                            *)
(***************************************************************************)

\* the background and the images the stage paints, back to front
ContentOrder ==
    SelectSeq(DrawOrder(CurrentLayers),
              LAMBDA n : n.kind \in {"background", "image"})

\* C19 (as stated): the stage paints the background first when its rank is
\* behind (-1), then the layers in scene order, then the background when
\* its rank is front (1).
C19_DrawOrderFollowsRank ==
    (editorMounted /\ IsSome(backgroundImage)
        /\ Get(backgroundImage).zIndex \in {-1, 1}) =>
        ContentOrder =
            (IF Get(backgroundImage).zIndex = -1
             THEN <<Plain("background")>> ELSE <<>>)
            \o ImageNodes(draggableImages)
            \o (IF Get(backgroundImage).zIndex = 1
                THEN <<Plain("background")>> ELSE <<>>)


(***************************************************************************)
(* Placement of a new layer (SpecPlace).                                   *)
(***************************************************************************)

\* C20 (as stated): a layer just added is the last of the list, is 120 by
\* 120, lies within the canvas, and the layers before it are unchanged.
C20_NewLayerInsideCanvas ==
    (lastOp.op = "add" /\ effectsPending) =>
        LET n == Len(draggableImages)
            new == draggableImages[n]
        IN /\ lastOp.idx = n
           /\ SubSeq(draggableImages, 1, n - 1) = lastOp.before
           /\ new.width = InitialSize
           /\ new.height = InitialSize
           /\ 0 <= new.x
           /\ new.x + new.width <= canvasSize[1]
           /\ 0 <= new.y
           /\ new.y + new.height <= canvasSize[2]


(***************************************************************************)
(* Image controls and selection (SpecControls).                            *)
(***************************************************************************)

HostMutations ==
    {"rotate", "flip", "bringToFront", "sendToBack", "removeImage"}

\* C21: a rotate, flip, bringToFront, sendToBack or removeImage whose id
\* names no layer leaves the layer list as it was and raises nothing, and
\* a drag or transform commit computed for such an id gives the editor's
\* items back unchanged.
C21_UnknownIdIsNoOp ==
    /\ (lastOp.op \in HostMutations /\ lastOp.idx = 0) =>
          /\ draggableImages = lastOp.before
          /\ ~crashed
    /\ (IsSome(selectedImageId)
          /\ FindIndex(draggableImages, Get(selectedImageId)) = 0) =>
          LET items == ToItems(draggableImages)
              id == Get(selectedImageId)
          IN /\ \A pos \in DragPositions :
                   DragMoveItems(items, id, pos) = items
             /\ \A g \in Gestures, pos \in TransformPositions,
                   rot \in Rotations :
                   TransformEndItems(items, id, g[1], g[2], pos, rot) = items

\* a flip asked for a layer that a removal by url has taken away, on a
\* scene that still has a layer
C21_Witness ==
    /\ lastOp.op = "flip"
    /\ lastOp.idx = 0
    /\ prevOp.op = "removeUrl"
    /\ Len(draggableImages) = 1

(***************************************************************************)
(* Products cache claims                                                   *)
(***************************************************************************)

PendingFlights == {n \in 1..Len(flights) : flights[n].state = "pending"}

\* C23: products are loaded once: at most one request to the products
\* endpoint is in flight at a time, a caller that arrived during a flight
\* holds that request's promise and receives its result, no request is
\* issued once a result has been cached, and the cached value never changes.
C23_ProductsLoadedOnce ==
    /\ Cardinality(PendingFlights) <= 1
    /\ \A n \in 1..Len(flights) :
          /\ ~flights[n].cachedAtStart
          /\ flights[n].state = "pending" => inflight = Some(n)
          /\ flights[n].cachedAfter # None =>
                /\ n = Len(flights)
                /\ cachedProducts = flights[n].cachedAfter
    /\ cachedProducts # None => PendingFlights = {}
    /\ \A c \in Callers :
          /\ callerState[c].pc = "awaiting" =>
                callerState[c].promise \in 1..Len(flights)
          /\ (callerState[c].pc = "done" /\ callerState[c].promise > 0) =>
                callerState[c].result = flights[callerState[c].promise].result
          /\ (callerState[c].pc = "done" /\ callerState[c].promise = 0) =>
                /\ cachedProducts # None
                /\ callerState[c].result = <<"ok", Get(cachedProducts)>>

\* both pages called during the one flight and received its products
C23_Witness ==
    /\ Len(flights) = 1
    /\ flights[1].outcome = "ok"
    /\ \A c \in Callers :
          /\ callerState[c].pc = "done"
          /\ callerState[c].promise = 1
          /\ callerState[c].result = <<"ok", <<"p1", "p2">>>>

C30_SettledFlights ==
    \A n \in 1..Len(flights) :
       flights[n].state = "settled" =>
          /\ flights[n].inflightAfter = None
          /\ flights[n].outcome = "throw" => flights[n].cachedAfter = None
          /\ flights[n].outcome = "notOk" =>
                /\ flights[n].cachedAfter = Some(<<>>)
                /\ n = Len(flights)

\* a call made when the last request threw issues a new request
C30_CallAfterThrow ==
    \A c \in Callers :
       (/\ LoadProducts(c)
        /\ flights # <<>>
        /\ flights[Len(flights)].outcome = "throw") =>
          /\ Len(flights') = Len(flights) + 1
          /\ inflight' = Some(Len(flights'))

\* C30: loadProductsOnce clears its in-flight marker whenever the request
\* settles, on success, on a non-success answer and on a throw; after a throw
\* the cache is still unset and a later call issues a new request; after a
\* non-success answer the cache holds the empty list and no later call
\* requests again.
C30_InflightClearedOnSettle ==
    []C30_SettledFlights /\ [][C30_CallAfterThrow]_vars

\* the first request threw, the second answered without success, and a
\* later call was served the empty list from the cache
C30_Witness ==
    /\ Len(flights) = 2
    /\ flights[1].outcome = "throw"
    /\ flights[2].outcome = "notOk"
    /\ inflight = None
    /\ \E c \in Callers :
          /\ callerState[c].pc = "done"
          /\ callerState[c].promise = 0
          /\ callerState[c].result = <<"ok", <<>>>>

(***************************************************************************)
(* Image proxy claims                                                      *)
(***************************************************************************)

\* the answer whose bytes the proxy passed on
BytesSource(x) ==
    IF ResponseOk(x.first) THEN x.first ELSE x.second

\* C24: the proxy answers with success and bytes only when the source was
\* reached and answered with an image content type; a missing url, another
\* protocol, an unreachable source or a non-image answer give an error
\* status, on the fallback download too.
C24_BytesOnlyForImages ==
    IsSome(proxyExchange) =>
       LET x == Get(proxyExchange)
       IN  IF x.response.body = "bytes"
           THEN /\ x.response.status = 200
                /\ x.url # ""
                /\ UrlProtocol(x.url) \in {"http:", "https:"}
                /\ BytesSource(x).reached
                /\ ResponseOk(BytesSource(x))
                /\ IsImageType(BytesSource(x).contentType)
           ELSE x.response.status >= 400

(***************************************************************************)
(* Image load claims                                                       *)
(***************************************************************************)

LoadsSettled == editorMounted /\ bgLoads = {} /\ bgEffectUrl = BackgroundUrlProp

\* C26: a late image load is harmless: once every load in flight has
\* settled, the image drawn for the background is that of its current url,
\* and nothing is drawn when the background was removed.
C26_LateLoadHarmless ==
    LoadsSettled => bgImage \in {None, BackgroundUrlProp}

(***************************************************************************)
(* Transform of flipped layers                                             *)
(***************************************************************************)

UnitGesture ==
    \E axis \in MirrorAxes, pos \in TransformPositions, rot \in Rotations :
       TransformGesture(Ratio(1, 1), Ratio(1, 1), axis, pos, rot)

SameSizes ==
    /\ Len(draggableImages') = Len(draggableImages)
    /\ \A j \in 1..Len(draggableImages) :
          /\ draggableImages'[j].width = draggableImages[j].width
          /\ draggableImages'[j].height = draggableImages[j].height

\* C28: a transform gesture that ends without a change of the displayed
\* size leaves the width and the height of the layer as they were, for a
\* flipped layer as for an unflipped one.
C28_UnitTransformKeepsSize == [][UnitGesture => SameSizes]_vars

(***************************************************************************)
(* Selection of editor and host                                            *)
(***************************************************************************)

\* C29: the editor's selected layer id and the host's selected layer id
\* always agree and, when not null, name a layer of the scene.
C29_SelectionsAgree ==
    (Ready /\ editorMounted) =>
       /\ selectedId = selectedImageId
       /\ IsSome(selectedId) => FindIndex(draggableImages, Get(selectedId)) # 0

(***************************************************************************)
(* Brush strokes                                                           *)
(***************************************************************************)

AnyPaint == \E k \in RedrawKeeps : Paint(k)

\* a stroke begins only with a pointer-down in brush mode, and the canvas
\* gains stamps only by paint() during a stroke in brush mode
C27_StampOnlyInStroke ==
    /\ (isPainting' /\ ~isPainting) => (StageMouseDown /\ maskMode = "brush")
    /\ (brushPainted' /\ ~brushPainted) =>
          (AnyPaint /\ isPainting /\ maskMode = "brush")

\* every pointer-up ends the stroke
C27_PointerUpEndsStroke == StopPainting => ~isPainting'

\* a paint leaves the stamps the canvas holds from a stroke that has ended
\* (the snapshot taken at its pointer-up shows them)
C27_StampsKept ==
    (AnyPaint /\ brushPainted /\ brushMaskImage = Some(TRUE)) => brushPainted'

\* C27: a brush stamp is added only on a pointer-move between a pointer-down
\* made in brush mode and the next pointer-up, and only while the mode is
\* brush; every pointer-up ends the stroke; stamps of earlier strokes are
\* never removed by later strokes.
C27_BrushStrokes ==
    [][C27_StampOnlyInStroke /\ C27_PointerUpEndsStroke /\ C27_StampsKept]_vars

\* the first two parts alone
C27_StrokeProtocol ==
    [][C27_StampOnlyInStroke /\ C27_PointerUpEndsStroke]_vars

(***************************************************************************)
(* Export leaves the editor as it was                                      *)
(***************************************************************************)

ExportRan == Len(exportRuns') = Len(exportRuns) + 1

\* what an export reads: the scene, the mask state, the selection and the
\* visibility of the overlays
ExportInputs ==
    <<draggableImages, backgroundImage, canvasSize, maskMode, polygonPoints,
      brushPainted, brushMaskImage, selectedId, selectedImageId,
      transformersVisible>>

\* C22: export is idempotent: a run of doExport leaves the scene, the mask
\* state, the selection and the overlay visibility exactly as they were, so
\* a second export with no scene mutation in between reads the same inputs.
C22_ExportLeavesInputs == [][ExportRan => UNCHANGED ExportInputs]_vars

\* the same for runs of doExport that return
C22_ReturningExportKeepsScene ==
    [][(ExportRan /\ exportRuns'[Len(exportRuns')].outcome = "ok") =>
          UNCHANGED <<draggableImages, backgroundImage, canvasSize, maskMode,
                      polygonPoints, brushMaskImage, selectedId,
                      selectedImageId, transformersVisible>>]_vars

(***************************************************************************)
(* Commits and renders                                                     *)
(***************************************************************************)

AnyCommit ==
    \E i \in 1..MaxRenderLayers, pos \in DragPositions : CommitDragMove(i, pos)

\* the commit keeps every layer of the host's list and changes none but its
\* target
CommitKeepsMutations ==
    /\ Len(draggableImages') = Len(draggableImages)
    /\ \A j \in 1..Len(draggableImages) :
          draggableImages[j].id # lastOp'.id =>
             ToItems(draggableImages')[j] = ToItems(draggableImages)[j]

\* C25: no scene mutation is lost to a stale render: a commit computed from
\* the layer list the editor last rendered drops no layer added, and undoes
\* no mutation applied, since that render.
C25_NoStaleCommit == [][AnyCommit => CommitKeepsMutations]_vars

====
